---- MODULE Spec2Model ----
(***************************************************************************)
(* Model of the incremental review crawl of sexy-ozon-parser:              *)
(*   - ReviewsStorage (src/src/database/json_storage.py): the review files *)
(*     and the per-product metadata (watermark) file;                      *)
(*   - OzonReviewParser.parse_product_reviews and _is_newer_review         *)
(*     (src/src/parsers/ozon_review_parser.py): the page loop, the cap,    *)
(*     the incremental filter and the flush;                               *)
(*   - the run coordinators (parse_multiple_products, scheduled_parser     *)
(*     main): one parse_product_reviews call per URL of a list.            *)
(* The browser is the environment: a source is a sequence of listing       *)
(* pages, each with a "no reviews" indicator and the review records that   *)
(* _parse_review yields for its elements.                                  *)
(***************************************************************************)
EXTENDS Integers, Sequences, FiniteSets, TLC

VARIABLES
    source,            \* environment: the listing pages of the product
    now,               \* environment: the last reading of datetime.now(), in ticks
    reviews,           \* reviews_<product_id>.json, per product
    metadata,          \* metadata.json, per product
    pc,                \* position inside parse_product_reviews
    runs,              \* number of finished parse_product_reviews calls
    product_id,        \* local product_id
    incremental,       \* local incremental (after the default)
    max_reviews,       \* local max_reviews (after the default)
    last_review_date,  \* local last_review_date (watermark snapshot)
    last_review_ids,   \* local last_review_ids (watermark snapshot)
    page_view,         \* the listing page the browser page shows
    page_num,          \* local page_num
    raw_reviews,       \* local raw_reviews
    all_reviews,       \* local all_reviews
    save_i,            \* position of save_reviews in all_reviews
    stop_reason,       \* which break of the page loop was taken
    last_page,         \* what the last _collect_reviews_from_page saw
    pages_collected,   \* history: calls of _collect_reviews_from_page
    nav_log,           \* history: the state at each next-page navigation
    run_log,           \* history: one summary per finished call
    perm_raw,          \* the same raw records in another order
    perm_reviews,      \* the filter's output on perm_raw
    urls,              \* the coordinator's list of product URLs
    results,           \* the coordinator's dict results (URL -> count)
    listing_view,      \* how the listing view was reached, if it was
    next_id,           \* store calls: the next review id never used before
    writers,           \* concurrent update_product_metadata calls
    truncated,         \* metadata.json cannot be decoded: "json" (empty, cut,
                       \* text with a tail), "utf8" (bytes that are no
                       \* UTF-8 text); "no": it holds the text of metadata
    endless,           \* environment: the listing always offers a next page
    debug_mode,        \* self.debug_mode of the parser
    force_full,        \* scheduled run: the command line flag --full
    url_file,          \* scheduled run: the lines of product_urls.txt
    browser,           \* self.browser is set: a browser session is open
    page_open,         \* the page of the running call is open
    closed,            \* the coordinator has called parser.close()
    saved_count,       \* save_reviews: the records stored by this flush
    review_date_str,   \* the argument of a parse_date call
    review_date        \* the outcome of that parse_date call

vars == <<source, now, reviews, metadata, pc, runs, product_id, incremental,
          max_reviews, last_review_date, last_review_ids, page_view, page_num,
          raw_reviews, all_reviews, save_i, stop_reason, last_page,
          pages_collected, nav_log, run_log, perm_raw, perm_reviews,
          urls, results, listing_view, next_id, writers, truncated,
          endless, debug_mode, force_full, url_file, browser, page_open,
          closed, saved_count, review_date_str, review_date>>

\* the state of the coordinator
coordinator == <<urls, results>>

\* the state of the store-level calls outside a crawl
store_calls == <<next_id, writers, truncated>>

\* what is fixed when a run starts: the site's pagination, the parser's
\* debug flag, the command line and the URL file of the scheduled run
settings == <<endless, debug_mode, force_full, url_file>>

\* the browser session and the page of the parser
adapter == <<browser, page_open, closed>>

\* one call of parse_date
date_call == <<review_date_str, review_date>>

(***************************************************************************)
(* Bounds of the model.                                                    *)
(***************************************************************************)
MaxPages == 2
MaxPageSize == 2
MaxCap == 2
MaxRuns == 2
MaxRaw == 2
MaxNewIds == 2
MaxUrls == 2
MaxFlush == 3
MaxLines == 2

(***************************************************************************)
(* Program constants.                                                      *)
(***************************************************************************)
MAX_REVIEWS_PER_PRODUCT == 5000
INCREMENTAL_PARSING == TRUE
WindowSize == 20

Products == {"101", "202"}

(***************************************************************************)
(* Product URLs.  A URL is the sequence of its characters, which is what   *)
(* the two patterns of _extract_product_id are searched in.                *)
(***************************************************************************)
\* "https://www.ozon.ru/product/phone-101/"
UrlSuffix ==
    <<"h", "t", "t", "p", "s", ":", "/", "/", "w", "w", "w", ".", "o", "z",
      "o", "n", ".", "r", "u", "/", "p", "r", "o", "d", "u", "c", "t", "/",
      "p", "h", "o", "n", "e", "-", "1", "0", "1", "/">>

\* "https://www.ozon.ru/product/phone/"
UrlNoId ==
    <<"h", "t", "t", "p", "s", ":", "/", "/", "w", "w", "w", ".", "o", "z",
      "o", "n", ".", "r", "u", "/", "p", "r", "o", "d", "u", "c", "t", "/",
      "p", "h", "o", "n", "e", "/">>

\* with "https://www.ozon.ru/item?id=202",
\* "https://www.ozon.ru/product/phone-202-pro/" and
\* "https://www.ozon.ru/item?sort=new&yclid=202"
Urls ==
    {UrlSuffix, UrlNoId,
     <<"h", "t", "t", "p", "s", ":", "/", "/", "w", "w", "w", ".", "o",
       "z", "o", "n", ".", "r", "u", "/", "i", "t", "e", "m", "?", "i",
       "d", "=", "2", "0", "2">>,
     <<"h", "t", "t", "p", "s", ":", "/", "/", "w", "w", "w", ".", "o",
       "z", "o", "n", ".", "r", "u", "/", "p", "r", "o", "d", "u", "c",
       "t", "/", "p", "h", "o", "n", "e", "-", "2", "0", "2", "-", "p",
       "r", "o", "/">>,
     <<"h", "t", "t", "p", "s", ":", "/", "/", "w", "w", "w", ".", "o",
       "z", "o", "n", ".", "r", "u", "/", "i", "t", "e", "m", "?", "s",
       "o", "r", "t", "=", "n", "e", "w", "&", "y", "c", "l", "i", "d",
       "=", "2", "0", "2">>}

NoProduct == ""      \* _extract_product_id returns None

\* \d in a pattern for str: the decimal digits of every script (the
\* characters of category Nd: 66 rows of ten, each row the digits 0..9 of
\* one script or style in order).  A character that is not ASCII is
\* written by the name of its code point
Digit ==
    {"0", "1", "2", "3", "4", "5", "6", "7", "8", "9",
     "U+0660", "U+0661", "U+0662", "U+0663", "U+0664", "U+0665", "U+0666", "U+0667", "U+0668", "U+0669",
     "U+06F0", "U+06F1", "U+06F2", "U+06F3", "U+06F4", "U+06F5", "U+06F6", "U+06F7", "U+06F8", "U+06F9",
     "U+07C0", "U+07C1", "U+07C2", "U+07C3", "U+07C4", "U+07C5", "U+07C6", "U+07C7", "U+07C8", "U+07C9",
     "U+0966", "U+0967", "U+0968", "U+0969", "U+096A", "U+096B", "U+096C", "U+096D", "U+096E", "U+096F",
     "U+09E6", "U+09E7", "U+09E8", "U+09E9", "U+09EA", "U+09EB", "U+09EC", "U+09ED", "U+09EE", "U+09EF",
     "U+0A66", "U+0A67", "U+0A68", "U+0A69", "U+0A6A", "U+0A6B", "U+0A6C", "U+0A6D", "U+0A6E", "U+0A6F",
     "U+0AE6", "U+0AE7", "U+0AE8", "U+0AE9", "U+0AEA", "U+0AEB", "U+0AEC", "U+0AED", "U+0AEE", "U+0AEF",
     "U+0B66", "U+0B67", "U+0B68", "U+0B69", "U+0B6A", "U+0B6B", "U+0B6C", "U+0B6D", "U+0B6E", "U+0B6F",
     "U+0BE6", "U+0BE7", "U+0BE8", "U+0BE9", "U+0BEA", "U+0BEB", "U+0BEC", "U+0BED", "U+0BEE", "U+0BEF",
     "U+0C66", "U+0C67", "U+0C68", "U+0C69", "U+0C6A", "U+0C6B", "U+0C6C", "U+0C6D", "U+0C6E", "U+0C6F",
     "U+0CE6", "U+0CE7", "U+0CE8", "U+0CE9", "U+0CEA", "U+0CEB", "U+0CEC", "U+0CED", "U+0CEE", "U+0CEF",
     "U+0D66", "U+0D67", "U+0D68", "U+0D69", "U+0D6A", "U+0D6B", "U+0D6C", "U+0D6D", "U+0D6E", "U+0D6F",
     "U+0DE6", "U+0DE7", "U+0DE8", "U+0DE9", "U+0DEA", "U+0DEB", "U+0DEC", "U+0DED", "U+0DEE", "U+0DEF",
     "U+0E50", "U+0E51", "U+0E52", "U+0E53", "U+0E54", "U+0E55", "U+0E56", "U+0E57", "U+0E58", "U+0E59",
     "U+0ED0", "U+0ED1", "U+0ED2", "U+0ED3", "U+0ED4", "U+0ED5", "U+0ED6", "U+0ED7", "U+0ED8", "U+0ED9",
     "U+0F20", "U+0F21", "U+0F22", "U+0F23", "U+0F24", "U+0F25", "U+0F26", "U+0F27", "U+0F28", "U+0F29",
     "U+1040", "U+1041", "U+1042", "U+1043", "U+1044", "U+1045", "U+1046", "U+1047", "U+1048", "U+1049",
     "U+1090", "U+1091", "U+1092", "U+1093", "U+1094", "U+1095", "U+1096", "U+1097", "U+1098", "U+1099",
     "U+17E0", "U+17E1", "U+17E2", "U+17E3", "U+17E4", "U+17E5", "U+17E6", "U+17E7", "U+17E8", "U+17E9",
     "U+1810", "U+1811", "U+1812", "U+1813", "U+1814", "U+1815", "U+1816", "U+1817", "U+1818", "U+1819",
     "U+1946", "U+1947", "U+1948", "U+1949", "U+194A", "U+194B", "U+194C", "U+194D", "U+194E", "U+194F",
     "U+19D0", "U+19D1", "U+19D2", "U+19D3", "U+19D4", "U+19D5", "U+19D6", "U+19D7", "U+19D8", "U+19D9",
     "U+1A80", "U+1A81", "U+1A82", "U+1A83", "U+1A84", "U+1A85", "U+1A86", "U+1A87", "U+1A88", "U+1A89",
     "U+1A90", "U+1A91", "U+1A92", "U+1A93", "U+1A94", "U+1A95", "U+1A96", "U+1A97", "U+1A98", "U+1A99",
     "U+1B50", "U+1B51", "U+1B52", "U+1B53", "U+1B54", "U+1B55", "U+1B56", "U+1B57", "U+1B58", "U+1B59",
     "U+1BB0", "U+1BB1", "U+1BB2", "U+1BB3", "U+1BB4", "U+1BB5", "U+1BB6", "U+1BB7", "U+1BB8", "U+1BB9",
     "U+1C40", "U+1C41", "U+1C42", "U+1C43", "U+1C44", "U+1C45", "U+1C46", "U+1C47", "U+1C48", "U+1C49",
     "U+1C50", "U+1C51", "U+1C52", "U+1C53", "U+1C54", "U+1C55", "U+1C56", "U+1C57", "U+1C58", "U+1C59",
     "U+A620", "U+A621", "U+A622", "U+A623", "U+A624", "U+A625", "U+A626", "U+A627", "U+A628", "U+A629",
     "U+A8D0", "U+A8D1", "U+A8D2", "U+A8D3", "U+A8D4", "U+A8D5", "U+A8D6", "U+A8D7", "U+A8D8", "U+A8D9",
     "U+A900", "U+A901", "U+A902", "U+A903", "U+A904", "U+A905", "U+A906", "U+A907", "U+A908", "U+A909",
     "U+A9D0", "U+A9D1", "U+A9D2", "U+A9D3", "U+A9D4", "U+A9D5", "U+A9D6", "U+A9D7", "U+A9D8", "U+A9D9",
     "U+A9F0", "U+A9F1", "U+A9F2", "U+A9F3", "U+A9F4", "U+A9F5", "U+A9F6", "U+A9F7", "U+A9F8", "U+A9F9",
     "U+AA50", "U+AA51", "U+AA52", "U+AA53", "U+AA54", "U+AA55", "U+AA56", "U+AA57", "U+AA58", "U+AA59",
     "U+ABF0", "U+ABF1", "U+ABF2", "U+ABF3", "U+ABF4", "U+ABF5", "U+ABF6", "U+ABF7", "U+ABF8", "U+ABF9",
     "U+FF10", "U+FF11", "U+FF12", "U+FF13", "U+FF14", "U+FF15", "U+FF16", "U+FF17", "U+FF18", "U+FF19",
     "U+104A0", "U+104A1", "U+104A2", "U+104A3", "U+104A4", "U+104A5", "U+104A6", "U+104A7", "U+104A8", "U+104A9",
     "U+10D30", "U+10D31", "U+10D32", "U+10D33", "U+10D34", "U+10D35", "U+10D36", "U+10D37", "U+10D38", "U+10D39",
     "U+11066", "U+11067", "U+11068", "U+11069", "U+1106A", "U+1106B", "U+1106C", "U+1106D", "U+1106E", "U+1106F",
     "U+110F0", "U+110F1", "U+110F2", "U+110F3", "U+110F4", "U+110F5", "U+110F6", "U+110F7", "U+110F8", "U+110F9",
     "U+11136", "U+11137", "U+11138", "U+11139", "U+1113A", "U+1113B", "U+1113C", "U+1113D", "U+1113E", "U+1113F",
     "U+111D0", "U+111D1", "U+111D2", "U+111D3", "U+111D4", "U+111D5", "U+111D6", "U+111D7", "U+111D8", "U+111D9",
     "U+112F0", "U+112F1", "U+112F2", "U+112F3", "U+112F4", "U+112F5", "U+112F6", "U+112F7", "U+112F8", "U+112F9",
     "U+11450", "U+11451", "U+11452", "U+11453", "U+11454", "U+11455", "U+11456", "U+11457", "U+11458", "U+11459",
     "U+114D0", "U+114D1", "U+114D2", "U+114D3", "U+114D4", "U+114D5", "U+114D6", "U+114D7", "U+114D8", "U+114D9",
     "U+11650", "U+11651", "U+11652", "U+11653", "U+11654", "U+11655", "U+11656", "U+11657", "U+11658", "U+11659",
     "U+116C0", "U+116C1", "U+116C2", "U+116C3", "U+116C4", "U+116C5", "U+116C6", "U+116C7", "U+116C8", "U+116C9",
     "U+11730", "U+11731", "U+11732", "U+11733", "U+11734", "U+11735", "U+11736", "U+11737", "U+11738", "U+11739",
     "U+118E0", "U+118E1", "U+118E2", "U+118E3", "U+118E4", "U+118E5", "U+118E6", "U+118E7", "U+118E8", "U+118E9",
     "U+11950", "U+11951", "U+11952", "U+11953", "U+11954", "U+11955", "U+11956", "U+11957", "U+11958", "U+11959",
     "U+11C50", "U+11C51", "U+11C52", "U+11C53", "U+11C54", "U+11C55", "U+11C56", "U+11C57", "U+11C58", "U+11C59",
     "U+11D50", "U+11D51", "U+11D52", "U+11D53", "U+11D54", "U+11D55", "U+11D56", "U+11D57", "U+11D58", "U+11D59",
     "U+11DA0", "U+11DA1", "U+11DA2", "U+11DA3", "U+11DA4", "U+11DA5", "U+11DA6", "U+11DA7", "U+11DA8", "U+11DA9",
     "U+16A60", "U+16A61", "U+16A62", "U+16A63", "U+16A64", "U+16A65", "U+16A66", "U+16A67", "U+16A68", "U+16A69",
     "U+16AC0", "U+16AC1", "U+16AC2", "U+16AC3", "U+16AC4", "U+16AC5", "U+16AC6", "U+16AC7", "U+16AC8", "U+16AC9",
     "U+16B50", "U+16B51", "U+16B52", "U+16B53", "U+16B54", "U+16B55", "U+16B56", "U+16B57", "U+16B58", "U+16B59",
     "U+1D7CE", "U+1D7CF", "U+1D7D0", "U+1D7D1", "U+1D7D2", "U+1D7D3", "U+1D7D4", "U+1D7D5", "U+1D7D6", "U+1D7D7",
     "U+1D7D8", "U+1D7D9", "U+1D7DA", "U+1D7DB", "U+1D7DC", "U+1D7DD", "U+1D7DE", "U+1D7DF", "U+1D7E0", "U+1D7E1",
     "U+1D7E2", "U+1D7E3", "U+1D7E4", "U+1D7E5", "U+1D7E6", "U+1D7E7", "U+1D7E8", "U+1D7E9", "U+1D7EA", "U+1D7EB",
     "U+1D7EC", "U+1D7ED", "U+1D7EE", "U+1D7EF", "U+1D7F0", "U+1D7F1", "U+1D7F2", "U+1D7F3", "U+1D7F4", "U+1D7F5",
     "U+1D7F6", "U+1D7F7", "U+1D7F8", "U+1D7F9", "U+1D7FA", "U+1D7FB", "U+1D7FC", "U+1D7FD", "U+1D7FE", "U+1D7FF",
     "U+1E140", "U+1E141", "U+1E142", "U+1E143", "U+1E144", "U+1E145", "U+1E146", "U+1E147", "U+1E148", "U+1E149",
     "U+1E2F0", "U+1E2F1", "U+1E2F2", "U+1E2F3", "U+1E2F4", "U+1E2F5", "U+1E2F6", "U+1E2F7", "U+1E2F8", "U+1E2F9",
     "U+1E950", "U+1E951", "U+1E952", "U+1E953", "U+1E954", "U+1E955", "U+1E956", "U+1E957", "U+1E958", "U+1E959",
     "U+1FBF0", "U+1FBF1", "U+1FBF2", "U+1FBF3", "U+1FBF4", "U+1FBF5", "U+1FBF6", "U+1FBF7", "U+1FBF8", "U+1FBF9"}

RECURSIVE DigitRun(_, _)
\* (\d+) at place i of the text: the digits from there on, as a text
DigitRun(url, i) ==
    IF i <= Len(url) /\ url[i] \in Digit
    THEN url[i] \o DigitRun(url, i + 1)
    ELSE ""

\* the text pat stands at place i of the text
At(url, pat, i) ==
    /\ i + Len(pat) - 1 <= Len(url)
    /\ SubSeq(url, i, i + Len(pat) - 1) = pat

\* re.search(r'/product/.*?-(\d+)/?', url), then re.search(r'id=(\d+)', url):
\* the first pattern takes the digits after the first hyphen that is followed
\* by a digit and stands after a "/product/" on the same line (the dot
\* matches no line break); the second the digits after the first "id=" that
\* is followed by a digit, wherever it stands (at the end of any parameter
\* name).  The id is the text of the digits as they are written
_extract_product_id(url) ==
    LET product == {i \in 1..Len(url) :
                      At(url, <<"/", "p", "r", "o", "d", "u", "c", "t", "/">>, i)}
        hyphen == {j \in 1..(Len(url) - 1) :
                      /\ \E i \in product :
                            /\ j >= i + 9
                            /\ \A k \in (i + 9)..(j - 1) : url[k] # "\n"
                      /\ url[j] = "-"
                      /\ url[j + 1] \in Digit}
        id == {j \in 1..(Len(url) - 3) :
                  At(url, <<"i", "d", "=">>, j) /\ url[j + 3] \in Digit}
    IN  IF hyphen # {}
        THEN DigitRun(url, (CHOOSE j \in hyphen : \A k \in hyphen : j <= k) + 1)
        ELSE IF id # {}
        THEN DigitRun(url, (CHOOSE j \in id : \A k \in id : j <= k) + 3)
        ELSE NoProduct

(***************************************************************************)
(* Date texts.  A review's 'date' is the text scraped from the page; the   *)
(* record names the textual form and the numbers written in it:            *)
(*   "dot"   DD.MM.YYYY            "ru"    D <month name> YYYY             *)
(*   "iso"   YYYY-MM-DD            "slash" DD/MM/YYYY                      *)
(*   "basic" YYYYMMDD                                                      *)
(*   "junk"  any other text        "empty" the empty string                *)
(*   "none"  Python None                                                   *)
(* For "ru", m is the number months_ru gives the month word, 0 when the    *)
(* word is not a key of months_ru.  What follows the date in the text is   *)
(* its tail: "" nothing, "text" other words (as in "10.01.2024 г."),       *)
(* "time" a time of day (as in "2024-01-05T10:30" or "10.01.2024 12:30"),  *)
(* which is tick ticks after midnight and is followed by "Z" when utc.     *)
(***************************************************************************)
DateTextTail(f, dd, mm, yy, tl, tk, z) ==
    [fmt |-> f, d |-> dd, m |-> mm, y |-> yy, tail |-> tl, tick |-> tk, utc |-> z]

DateText(f, dd, mm, yy) == DateTextTail(f, dd, mm, yy, "", 0, FALSE)
NoneDate == DateText("none", 0, 0, 0)
EmptyDate == DateText("empty", 0, 0, 0)
JunkDate == DateText("junk", 0, 0, 0)

Truthy(date_str) == date_str.fmt \notin {"none", "empty"}

DaysInMonth(y, m) ==
    IF m = 2 THEN (IF (y % 4 = 0 /\ y % 100 # 0) \/ y % 400 = 0 THEN 29 ELSE 28)
    ELSE IF m \in {4, 6, 9, 11} THEN 30 ELSE 31

\* datetime(year, month, day) raises ValueError outside these ranges
ValidDate(y, m, d) ==
    /\ y \in 1..9999
    /\ m \in 1..12
    /\ d \in 1..DaysInMonth(y, m)

\* A datetime as a number of ticks; a calendar date is its midnight.  The
\* encoding keeps the order of datetimes, which is all the code uses.
TicksPerDay == 4
DateTicks(y, m, d) == ((y * 12 + m) * 31 + d) * TicksPerDay

\* aware: the datetime carries a time zone (UTC in the model)
Raised == [ok |-> FALSE, v |-> 0, clock |-> FALSE, aware |-> FALSE]
Parsed(v) == [ok |-> TRUE, v |-> v, clock |-> FALSE, aware |-> FALSE]
Fallback(t) == [ok |-> TRUE, v |-> t, clock |-> TRUE, aware |-> FALSE]

MkDatetime(y, m, d) == IF ValidDate(y, m, d) THEN Parsed(DateTicks(y, m, d)) ELSE Raised

\* day, month, year = map(int, date_str.split(sep)); datetime(year, month,
\* day): the text after the year is part of the last piece, and int() raises
\* ValueError on it
SplitDate(date_str) ==
    IF date_str.tail = ""
    THEN MkDatetime(date_str.y, date_str.m, date_str.d)
    ELSE Raised

\* the long form is read from the start of the text, whatever follows it
LongDate(date_str, t) ==
    IF date_str.m \in 1..12
    THEN MkDatetime(date_str.y, date_str.m, date_str.d)
    ELSE Fallback(t)

\* datetime.fromisoformat on an extended or a basic ISO text: a date, or a
\* date and a time of day, with "Z" an aware datetime; ValueError is caught
\* and, no later form matching, the clock is read
FromIso(date_str, t) ==
    IF ~ValidDate(date_str.y, date_str.m, date_str.d) \/ date_str.tail = "text"
    THEN Fallback(t)
    ELSE IF date_str.tail = ""
    THEN Parsed(DateTicks(date_str.y, date_str.m, date_str.d))
    ELSE IF date_str.utc
    THEN [Parsed(DateTicks(date_str.y, date_str.m, date_str.d) + date_str.tick)
             EXCEPT !.aware = TRUE]
    ELSE Parsed(DateTicks(date_str.y, date_str.m, date_str.d) + date_str.tick)

\* a parse_date that reads the numeric forms as month, day, year
ParseDateMonthFirst(date_str, t) ==
    CASE date_str.fmt \in {"dot", "slash"} ->
            IF date_str.tail = ""
            THEN MkDatetime(date_str.y, date_str.d, date_str.m)
            ELSE Raised
      [] date_str.fmt = "ru" -> LongDate(date_str, t)
      [] date_str.fmt \in {"iso", "basic"} -> FromIso(date_str, t)
      [] date_str.fmt = "none" -> Raised
      [] OTHER -> Fallback(t)

\* parse_date: ok = FALSE when it raises; clock = TRUE when it fell back to
\* datetime.now(), whose reading is t.
parse_date(date_str, t) ==
    CASE date_str.fmt = "dot" -> SplitDate(date_str)
      [] date_str.fmt = "ru" -> LongDate(date_str, t)
      [] date_str.fmt \in {"iso", "basic"} -> FromIso(date_str, t)
      [] date_str.fmt = "slash" -> SplitDate(date_str)
      [] date_str.fmt = "none" -> Raised
      [] OTHER -> Fallback(t)

\* _is_newer_review(review, last_review_date, last_review_ids), called when
\* the clock reads t.  A second reading of the clock in the same call is
\* later than the first.
_is_newer_review(review, lrd, lids, t) ==
    IF ~Truthy(lrd) THEN TRUE
    ELSE IF lids # {} /\ review.review_id \in lids THEN FALSE
    ELSE LET rd == parse_date(review.date, t)
             t2 == IF rd.ok /\ rd.clock THEN t + 1 ELSE t
             ld == parse_date(lrd, t2)
         IN  IF ~rd.ok \/ ~ld.ok THEN TRUE
             ELSE IF rd.aware # ld.aware THEN TRUE   \* TypeError, caught
             ELSE rd.v >= ld.v

(***************************************************************************)
(* ReviewsStorage.                                                         *)
(***************************************************************************)
NoTotal == 0 - 1     \* total_reviews=None / the key is absent

\* an empty review_id is the empty string, which Python treats as false
NoId == 0

\* metadata[product_id] of a product that has no entry.  keys are the keys
\* of the entry in the order in which the dict holds them (the order in
\* which they were first set), rank the place of the entry among the
\* entries of the file (0: no entry); json.dump writes in these orders
\* last_parsed is held as the length of its text (0: no such key)
EmptyProductData ==
    [last_review_date |-> NoneDate, last_review_ids |-> {}, total_reviews |-> NoTotal,
     last_parsed |-> 0, keys |-> <<>>, rank |-> 0]

\* datetime.now().isoformat() of line 104: "2024-01-11T06:00:00.123456", and
\* "2024-01-11T06:00:00" when the microsecond of the reading is 0
StampLens == {19, 26}

\* metadata.json as ReviewsStorage.__init__ creates it
NewStore == [p \in Products |-> EmptyProductData]

\* The bytes of the text json.dump(metadata, file, ensure_ascii=False,
\* indent=2) writes.  A date text: the numeric forms with two-digit day and
\* month; the long form with its month word, two bytes a letter; the junk
\* text of the model is "вчера", the words after a date " г.".
MonthLetters(m) ==
    CASE m \in {1, 4, 11} -> 6
      [] m \in {2, 8, 10, 12} -> 7
      [] m = 3 -> 5
      [] m = 5 -> 3
      [] m \in {6, 7} -> 4
      [] m = 9 -> 8
      [] OTHER -> 3            \* "янв", a word that is no key of months_ru

\* the date text without what follows the date
DateBytes(date) ==
    CASE date.fmt \in {"dot", "iso", "slash"} -> 10
      [] date.fmt = "basic" -> 8
      [] date.fmt = "ru" ->
            (IF date.d >= 10 THEN 2 ELSE 1) + 1 + 2 * MonthLetters(date.m) + 5
      [] date.fmt = "junk" -> 10
      [] OTHER -> 0

\* with what follows it: " г.", or "T06:00" and "Z"
\* the runs of Cyrillic letters of a date text: the byte at which a run
\* starts, counted from the start of the text, and its number of letters
Letters(date) ==
    (CASE date.fmt = "ru" ->
             {[at |-> (IF date.d >= 10 THEN 2 ELSE 1) + 1, n |-> MonthLetters(date.m)]}
       [] date.fmt = "junk" -> {[at |-> 0, n |-> 5]}
       [] OTHER -> {})
    \cup (IF date.tail = "text" THEN {[at |-> DateBytes(date) + 1, n |-> 1]} ELSE {})

RECURSIVE Digits(_)
Digits(n) == IF n < 10 THEN 1 ELSE 1 + Digits(n \div 10)

\* '    "key": value' of one key of an entry; a review id of the model is a
\* text of one character; last_parsed is the text of
\* datetime.now().isoformat() between its quotes
KeyBytes(pd, k) ==
    CASE k = "last_review_date" ->
            24 + 2 + DateBytes(pd.last_review_date) +
            (CASE pd.last_review_date.tail = "text" -> 4
               [] pd.last_review_date.tail = "time" ->
                     IF pd.last_review_date.utc THEN 7 ELSE 6
               [] OTHER -> 0)
      [] k = "last_review_ids" ->
            IF pd.last_review_ids = {} THEN 23 + 2
            ELSE 23 + 1 + 11 * Cardinality(pd.last_review_ids) + 5
      [] k = "total_reviews" -> 21 + Digits(pd.total_reviews)
      [] OTHER -> 19 + pd.last_parsed + 2

RECURSIVE KeysBytes(_, _)
\* the first n keys of the entry, each with its comma and line break
KeysBytes(pd, n) ==
    IF n = 0 THEN 0 ELSE KeysBytes(pd, n - 1) + KeyBytes(pd, pd.keys[n]) + 2

\* '  "101": {' and a line break, the keys (the last without comma), '  }'
EntryBytes(pd) == 11 + KeysBytes(pd, Len(pd.keys)) - 1 + 3

\* the number of entries of the file
Entries(md) == Cardinality({p \in DOMAIN md : md[p].rank > 0})

RECURSIVE EntriesBytes(_, _)
\* the first n entries of the file, each with its comma and line break
EntriesBytes(md, n) ==
    IF n = 0 THEN 0
    ELSE EntriesBytes(md, n - 1)
           + EntryBytes(md[CHOOSE p \in DOMAIN md : md[p].rank = n]) + 2

\* "{}" for the empty dict; else "{", a line break, the entries (the last
\* without its comma), "}"
TextBytes(md) ==
    IF Entries(md) = 0 THEN 2
    ELSE 2 + EntriesBytes(md, Entries(md)) - 1 + 1

\* the byte at which the date text of the product's entry starts
\* the byte off of the text is the second byte of a Cyrillic letter
InLetter(md, off) ==
    \E p \in DOMAIN md :
        /\ \E j \in 1..Len(md[p].keys) : md[p].keys[j] = "last_review_date"
        /\ \E run \in Letters(md[p].last_review_date) :
              LET i == CHOOSE j \in 1..Len(md[p].keys) :
                                md[p].keys[j] = "last_review_date"
                  start == 2 + EntriesBytes(md, md[p].rank - 1) + 11
                             + KeysBytes(md[p], i - 1) + 24 + 1
                  rel == off - start - run.at
              IN  rel > 0 /\ rel < 2 * run.n /\ rel % 2 = 1

\* _load_metadata: the dict of the file; {} when the text cannot be decoded
\* as JSON (json.JSONDecodeError, lines 51-53).  Bytes that are not UTF-8
\* raise UnicodeDecodeError, which is not caught
_load_metadata == IF truncated # "no" THEN NewStore ELSE metadata

UnicodeDecodeError == truncated = "utf8"

get_last_review_date(md, pid) == md[pid].last_review_date

get_last_review_ids(md, pid) == md[pid].last_review_ids

RECURSIVE DropAny(_, _)
\* the sets left after removing k elements of S
DropAny(S, k) ==
    IF k <= 0 THEN {S}
    ELSE UNION {DropAny(S \ {x}, k - 1) : x \in S}

SeqToSet(q) == {q[i] : i \in 1..Len(q)}

Max(S) == CHOOSE x \in S : \A y \in S : x >= y

\* a window that is never cut
WindowsUncut(pd, ids) ==
    {pd.last_review_ids \cup {x \in SeqToSet(ids) : x # NoId}}

\* list(existing_ids)[-20:] : existing_ids is a Python set, whose iteration
\* order is arbitrary, so the slice keeps any 20 of its elements.
Windows(pd, ids) ==
    LET existing_ids == pd.last_review_ids \cup {x \in SeqToSet(ids) : x # NoId}
    IN  DropAny(existing_ids, Cardinality(existing_ids) - WindowSize)

\* product_data[k] = ... : a key that is set for the first time comes last
SetKey(keys, k) ==
    IF \E i \in 1..Len(keys) : keys[i] = k THEN keys ELSE Append(keys, k)

\* lines 74-77: the entry of the product, made at the end of the dict when
\* there is none
product_data(md, pid) ==
    IF md[pid].rank = 0
    THEN [EmptyProductData EXCEPT !.rank = Entries(md) + 1]
    ELSE md[pid]

\* an update that keeps the first date it was given
UpdateKeepsFirstDate(md, pid, date, ids, total, window, stamp) ==
    LET pd == product_data(md, pid)
        k1 == IF Truthy(date) THEN SetKey(pd.keys, "last_review_date") ELSE pd.keys
        k2 == IF ids # <<>> THEN SetKey(k1, "last_review_ids") ELSE k1
        k3 == IF total # NoTotal THEN SetKey(k2, "total_reviews") ELSE k2
    IN  [md EXCEPT ![pid] =
            [last_review_date |-> IF Truthy(date) /\ ~Truthy(pd.last_review_date)
                                  THEN date ELSE pd.last_review_date,
             last_review_ids  |-> IF ids # <<>> THEN window ELSE pd.last_review_ids,
             total_reviews    |-> IF total # NoTotal THEN total ELSE pd.total_reviews,
             last_parsed      |-> stamp,
             keys             |-> SetKey(k3, "last_parsed"),
             rank             |-> pd.rank]]

\* update_product_metadata lines 74-104 on the dict md that line 71 loaded:
\* the dict that line 107 saves; window is the outcome of the slice, ids the
\* list last_review_ids (<<>> when not given), stamp the length of the text
\* of last_parsed
update_product_metadata(md, pid, date, ids, total, window, stamp) ==
    LET pd == product_data(md, pid)
        k1 == IF Truthy(date) THEN SetKey(pd.keys, "last_review_date") ELSE pd.keys
        k2 == IF ids # <<>> THEN SetKey(k1, "last_review_ids") ELSE k1
        k3 == IF total # NoTotal THEN SetKey(k2, "total_reviews") ELSE k2
    IN  [md EXCEPT ![pid] =
            [last_review_date |-> IF Truthy(date) THEN date ELSE pd.last_review_date,
             last_review_ids  |-> IF ids # <<>> THEN window ELSE pd.last_review_ids,
             total_reviews    |-> IF total # NoTotal THEN total ELSE pd.total_reviews,
             last_parsed      |-> stamp,
             keys             |-> SetKey(k3, "last_parsed"),
             rank             |-> pd.rank]]

\* a store that takes every record for a new one
ReviewNeverExists(stored, review) == FALSE

review_exists(stored, review) ==
    \E i \in 1..Len(stored) : stored[i].review_id = review.review_id

\* the argument last_review_ids=review['review_id'] of save_review: a
\* string, wrapped into a list when it is not empty
IdArg(review) == IF review.review_id # NoId THEN <<review.review_id>> ELSE <<>>

\* a save_review that counts the reviews read from the file
SaveReviewCountsBefore(review, window, stamp) ==
    LET pid == review.product_id
        stored == reviews[pid]
    IN  IF review_exists(stored, review)
        THEN /\ UNCHANGED <<reviews, metadata, truncated>>
        ELSE /\ reviews' = [reviews EXCEPT ![pid] = Append(stored, review)]
             /\ IF UnicodeDecodeError
                THEN UNCHANGED <<metadata, truncated>>
                ELSE /\ metadata' = update_product_metadata(_load_metadata, pid,
                            review.date, IdArg(review), Len(stored), window, stamp)
                     /\ truncated' = "no"

\* save_review(review): the review file and the metadata file after the
\* call.  The review is written to its file (lines 153-158), then
\* update_product_metadata loads the metadata file and writes it back; when
\* the load raises, the review stays in its file and the metadata file as
\* it was
save_review(review, window, stamp) ==
    LET pid == review.product_id
        stored == reviews[pid]
    IN  IF review_exists(stored, review)
        THEN /\ UNCHANGED <<reviews, metadata, truncated>>
        ELSE /\ reviews' = [reviews EXCEPT ![pid] = Append(stored, review)]
             /\ IF UnicodeDecodeError
                THEN UNCHANGED <<metadata, truncated>>
                ELSE /\ metadata' = update_product_metadata(_load_metadata, pid,
                            review.date, IdArg(review), Len(stored) + 1, window,
                            stamp)
                     /\ truncated' = "no"

(***************************************************************************)
(* The source: listing pages as the browser shows them.                    *)
(***************************************************************************)
\* a text is held as its length; FullText is the length of an ordinary
\* review text
FullText == 28

Review(id, date) ==
    [review_id |-> id, product_id |-> "101", date |-> date, text |-> FullText]

D09 == DateText("dot", 9, 1, 2024)       \* "09.01.2024"
D10 == DateText("dot", 10, 1, 2024)      \* "10.01.2024"
D12 == DateText("ru", 12, 1, 2024)       \* "12 января 2024"
D05Z == DateTextTail("iso", 5, 1, 2024, "time", 1, TRUE)
                                         \* "2024-01-05T06:00Z"

\* the date text of the k-th review of a source
DateOf(pat, k) ==
    CASE pat = "same" -> D10
      [] pat = "newest_first" -> IF k = 1 THEN D12 ELSE IF k = 2 THEN D10 ELSE D09
      [] OTHER -> IF k % 2 = 1 THEN JunkDate ELSE D10

\* the texts of a review element: shown, the stripped inner_text of the
\* elements the text selectors of lines 1157-1176 find in it, in the order
\* of the selectors (a selector that finds none, or whose call raises, has
\* no place in it); nodes, the stripped texts of the text nodes of the
\* element.  A text is held as its length.
\* the texts of the k-th review element of a source
TextOf(pat, k) ==
    CASE pat = "junk" ->
            IF k % 2 = 1 THEN [shown |-> <<3>>, nodes |-> {3, 20}]
            ELSE [shown |-> <<3, 7>>, nodes |-> {3, 7}]
      [] pat = "same" -> [shown |-> <<FullText>>, nodes |-> {FullText}]
      [] OTHER ->
            IF k % 2 = 1 THEN [shown |-> <<FullText>>, nodes |-> {FullText}]
            ELSE [shown |-> <<0, 4>>, nodes |-> {4, 21, FullText}]

\* error: the browser raises while the page is collected
PageShapes ==
    {[indicator |-> FALSE, error |-> FALSE, n |-> k] : k \in 0..MaxPageSize}
      \cup {[indicator |-> TRUE, error |-> FALSE, n |-> k] : k \in 0..1}
      \cup {[indicator |-> FALSE, error |-> TRUE, n |-> 1]}

RECURSIVE CountBefore(_, _)
CountBefore(shapes, i) ==
    IF i <= 1 THEN 0 ELSE CountBefore(shapes, i - 1) + shapes[i - 1].n

MkSource(shapes, pat) ==
    [i \in 1..Len(shapes) |->
        [indicator |-> shapes[i].indicator,
         error |-> shapes[i].error,
         recs |-> [j \in 1..shapes[i].n |->
                      [Review(CountBefore(shapes, i) + j,
                              DateOf(pat, CountBefore(shapes, i) + j))
                          EXCEPT !.text = TextOf(pat, CountBefore(shapes, i) + j)]]]]

SmallSources ==
    {MkSource(sh, pat) : sh \in UNION {[1..n -> PageShapes] : n \in 1..MaxPages},
                         pat \in {"newest_first", "junk"}}

\* with one page of one review more than the window holds, all of one date
Sources ==
    SmallSources \cup
    {MkSource(<<[indicator |-> FALSE, error |-> FALSE, n |-> WindowSize + 1]>>, "same")}

\* _collect_reviews_from_page: [] when the page shows "no reviews" and when
\* an exception is caught (lines 1635-1637), else the reviews parsed from its
\* elements
_collect_reviews_from_page(page) ==
    IF page.error \/ page.indicator THEN <<>> ELSE page.recs

\* _parse_review, lines 1179-1221: the text of the first selector that shows
\* more than 5 characters, else the longest text node of more than 20
\* characters, else ""
review_text(el) ==
    LET found == {i \in 1..Len(el.shown) : el.shown[i] > 5}
        long == {n \in el.nodes : n > 20}
    IN  IF found # {} THEN el.shown[CHOOSE i \in found : \A j \in found : i <= j]
        ELSE IF long # {} THEN Max(long)
        ELSE 0

\* _parse_review, lines 1279-1289: each record carries the product_id of the
\* traversal and the text found; the record is returned whatever its text is
Stamp(recs, pid) ==
    [i \in 1..Len(recs) |->
        [recs[i] EXCEPT !.product_id = pid, !.text = review_text(recs[i].text)]]

\* a navigation that never finds the next page
NavigateNever(src, view) == FALSE

\* _navigate_to_next_reviews_page succeeds when there is a further page; an
\* endless listing always has one
_navigate_to_next_reviews_page(src, view) == endless \/ view < Len(src)

\* the page shown after a navigation that succeeded: the pages of an endless
\* listing are those of the source, over and over
NextView(src, view) == IF endless /\ view = Len(src) THEN 1 ELSE view + 1

(***************************************************************************)
(* parse_product_reviews.                                                  *)
(***************************************************************************)
MaxArgs ==
    {[given |-> FALSE, val |-> 0]}
      \cup {[given |-> TRUE, val |-> v] : v \in 0..MaxCap}

\* if max_reviews is None: max_reviews = MAX_REVIEWS_PER_PRODUCT
ResolveMax(arg) == IF arg.given THEN arg.val ELSE MAX_REVIEWS_PER_PRODUCT

\* max_reviews and len(raw_reviews) >= max_reviews
CapReachedAfter(raw, max) == max # 0 /\ Len(raw) > max

\* the cap compared with the number of records that pass the filter
CapReachedFiltered(raw, max) ==
    max # 0 /\ Len(SelectSeq(raw, LAMBDA r :
                  _is_newer_review(r, last_review_date, last_review_ids, now))) >= max

CapReached(raw, max) == max # 0 /\ Len(raw) >= max

\* the stop reason of a break of the page loop; the code tells the reasons
\* apart by the messages it logs
StopReason(site, indicator) ==
    CASE site = "empty" -> IF indicator THEN "exhausted" ELSE "noRecordsOnPage"
      [] site = "limit" -> "limitReached"
      [] site = "no_next" -> "exhausted"
      [] OTHER -> "none"

\* the checks of one iteration of the page loop, in the code's order: the
\* break taken ("none": go on), and whether the navigation was invoked
LoopDecisionNavFirst(page_reviews, raw, max, nav_ok) ==
    IF page_reviews = <<>> THEN [site |-> "empty", nav |-> FALSE]
    ELSE IF ~nav_ok THEN [site |-> "no_next", nav |-> TRUE]
    ELSE IF CapReached(raw, max) THEN [site |-> "limit", nav |-> TRUE]
    ELSE [site |-> "none", nav |-> TRUE]

\* a page loop that also ends at a page on which the filter accepts nothing
LoopDecisionStopKnown(page_reviews, raw, max, nav_ok) ==
    IF page_reviews = <<>> THEN [site |-> "empty", nav |-> FALSE]
    ELSE IF /\ incremental
            /\ Truthy(last_review_date)
            /\ \A i \in 1..Len(page_reviews) :
                  ~_is_newer_review(page_reviews[i], last_review_date,
                                    last_review_ids, now)
         THEN [site |-> "no_next", nav |-> FALSE]
    ELSE IF CapReached(raw, max) THEN [site |-> "limit", nav |-> FALSE]
    ELSE IF ~nav_ok THEN [site |-> "no_next", nav |-> TRUE]
    ELSE [site |-> "none", nav |-> TRUE]

LoopDecision(page_reviews, raw, max, nav_ok) ==
    IF page_reviews = <<>> THEN [site |-> "empty", nav |-> FALSE]
    ELSE IF CapReached(raw, max) THEN [site |-> "limit", nav |-> FALSE]
    ELSE IF ~nav_ok THEN [site |-> "no_next", nav |-> TRUE]
    ELSE [site |-> "none", nav |-> TRUE]

\* lines 1925-1935 for one record: is it kept in all_reviews
AcceptsIdsFirst(inc, lrd, lids, raw, review, t) ==
    /\ review.review_id \notin lids
    /\ (IF inc /\ Truthy(lrd) /\ raw # <<>>
        THEN _is_newer_review(review, lrd, lids, t)
        ELSE TRUE)

Accepts(inc, lrd, lids, raw, review, t) ==
    IF inc /\ Truthy(lrd) /\ raw # <<>>
    THEN _is_newer_review(review, lrd, lids, t)
    ELSE TRUE

RECURSIVE FilterFrom(_, _, _, _, _, _)
\* lines 1926-1931 from raw[i] on: clk[i] is the reading of the clock during
\* the call _is_newer_review(raw[i], ...)
FilterFrom(inc, lrd, lids, raw, i, clk) ==
    IF i > Len(raw) THEN <<>>
    ELSE (IF Accepts(inc, lrd, lids, raw, raw[i], clk[i]) THEN <<raw[i]>> ELSE <<>>)
            \o FilterFrom(inc, lrd, lids, raw, i + 1, clk)

\* a filter that adds the new records to the raw ones
FilterReviewsExtend(inc, lrd, lids, raw, clk) ==
    IF inc /\ Truthy(lrd) /\ raw # <<>>
    THEN raw \o FilterFrom(inc, lrd, lids, raw, 1, clk)
    ELSE raw

\* a traversal that gives up its records when the last page raised
FilterReviewsAbortOnError(inc, lrd, lids, raw, clk) ==
    IF source[page_view].error THEN <<>> ELSE FilterFrom(inc, lrd, lids, raw, 1, clk)

\* the filter loop over raw_reviews
FilterReviews(inc, lrd, lids, raw, clk) == FilterFrom(inc, lrd, lids, raw, 1, clk)

NoPage == [indicator |-> FALSE, size |-> 0]

\* the clock when a run starts: 11 January 2024, after midnight
NowValues == {DateTicks(2024, 1, 11) + 1}

\* datetime.now() during n calls made one after the other from the reading
\* t on: the clock does not go back, and between two calls it may have
\* moved on to a later reading.  The readings of the model are the time of
\* the start and the same time of day a day later
Readings(t, n) ==
    {[i \in 1..n |-> IF i <= j THEN t ELSE u] :
        j \in 0..n,
        u \in {v \in NowValues \cup {w + TicksPerDay : w \in NowValues} : v >= t}}

\* the state of a parser on which no call is running
Idle ==
    /\ pc = "idle"
    /\ product_id = NoProduct
    /\ incremental = FALSE
    /\ max_reviews = 0
    /\ last_review_date = NoneDate
    /\ last_review_ids = {}
    /\ page_view = 1
    /\ page_num = 1
    /\ raw_reviews = <<>>
    /\ all_reviews = <<>>
    /\ save_i = 1
    /\ stop_reason = "none"
    /\ last_page = NoPage
    /\ pages_collected = 0
    /\ nav_log = <<>>
    /\ listing_view = "none"

\* no store call outside the crawl is under way
NoStoreCalls ==
    /\ next_id = 1
    /\ writers = <<>>
    /\ truncated = "no"

NoCount == 0 - 1     \* the URL is not a key of results

\* OzonReviewParser.__init__ (lines 15-21) with debug_mode=False: no browser
\* session, no page; close() was not called, no flush has stored anything
NewParser ==
    /\ browser = FALSE
    /\ page_open = FALSE
    /\ closed = FALSE
    /\ debug_mode = FALSE
    /\ saved_count = 0

\* no parse_date call was made
NotParsed == [ok |-> FALSE, v |-> 0, clock |-> TRUE, aware |-> FALSE]

\* the listing has a last page; no scheduled run; no parse_date call
Plain ==
    /\ endless = FALSE
    /\ force_full = FALSE
    /\ url_file = <<>>
    /\ review_date_str = NoneDate
    /\ review_date = NotParsed

Init ==
    /\ source \in Sources
    /\ now \in NowValues
    /\ reviews = [p \in Products |-> <<>>]
    /\ metadata = [p \in Products |-> EmptyProductData]
    /\ Idle
    /\ runs = 0
    /\ run_log = <<>>
    /\ perm_raw = <<>>
    /\ perm_reviews = <<>>
    /\ urls = [i \in 1..MaxRuns |-> UrlSuffix]
    /\ results = [u \in Urls |-> NoCount]
    /\ NoStoreCalls
    /\ NewParser
    /\ Plain

\* lines 1836-1841: the watermark is read only in incremental mode
SnapshotDate(inc, md, pid) == IF inc THEN get_last_review_date(md, pid) ELSE NoneDate

SnapshotIds(inc, md, pid) == IF inc THEN get_last_review_ids(md, pid) ELSE {}

\* a coordinator that records nothing for a URL whose traversal raised
RecordResultNoEntry(res, url, raised, revs) ==
    IF raised THEN res ELSE [res EXCEPT ![url] = Len(revs)]

\* parse_multiple_products lines 2049-2057, main lines 129-135:
\* results[url] = len(reviews), or 0 in the except clause
RecordResult(res, url, raised, revs) ==
    [res EXCEPT ![url] = IF raised THEN 0 ELSE Len(revs)]

\* the summary of a call that ends before a page was opened
EarlyExit(url, pid, inc, max, raised) ==
    [url |-> url, product |-> pid, failed |-> raised, listing |-> "none",
     incremental |-> inc, max_reviews |-> max, opened |-> FALSE, pages |-> 0,
     navs |-> 0, raw |-> 0, accepted |-> 0, saved |-> 0, stop_reason |-> "none"]

\* the coordinator takes the next URL; parse_product_reviews lines 1816-1847:
\* the defaults, the product id (return [] when there is none), the
\* watermark snapshot.  In incremental mode get_last_review_date loads the
\* metadata file (line 1840, outside the try block): when the load raises,
\* the call ends there, before the browser is started, and the coordinator
\* catches the exception
Start(arg, inc) ==
    /\ pc = "idle"
    /\ runs < Len(urls)
    /\ LET url == urls[runs + 1]
           pid == _extract_product_id(url)
       IN  /\ max_reviews' = ResolveMax(arg)
           /\ incremental' = inc
           /\ product_id' = pid
           /\ IF pid = NoProduct
              THEN /\ pc' = "idle"
                   /\ runs' = runs + 1
                   /\ results' = RecordResult(results, url, FALSE, <<>>)
                   /\ run_log' = Append(run_log,
                         EarlyExit(url, pid, inc, ResolveMax(arg), FALSE))
                   /\ last_review_date' = NoneDate
                   /\ last_review_ids' = {}
              ELSE IF inc /\ UnicodeDecodeError
              THEN /\ pc' = "idle"
                   /\ runs' = runs + 1
                   /\ results' = RecordResult(results, url, TRUE, <<>>)
                   /\ run_log' = Append(run_log,
                         EarlyExit(url, pid, inc, ResolveMax(arg), TRUE))
                   /\ last_review_date' = NoneDate
                   /\ last_review_ids' = {}
              ELSE /\ pc' = "page"
                   /\ last_review_date' = SnapshotDate(inc, _load_metadata, pid)
                   /\ last_review_ids' = SnapshotIds(inc, _load_metadata, pid)
                   /\ UNCHANGED <<runs, results, run_log>>
    /\ all_reviews' = <<>>
    /\ raw_reviews' = <<>>
    /\ stop_reason' = "none"
    /\ last_page' = NoPage
    /\ pages_collected' = 0
    /\ nav_log' = <<>>
    /\ save_i' = 1
    /\ listing_view' = "none"
    /\ saved_count' = 0
    /\ UNCHANGED <<settings, date_call, adapter, source, now, reviews, metadata,
                   page_view, page_num, perm_raw, perm_reviews, urls, store_calls>>

\* lines 1849-1854, outside the try block: the browser is started unless
\* self.browser is set, and a page is created ("ok").  An exception here
\* leaves parse_product_reviews and is caught by the coordinator: the browser
\* was not launched and self.context is None ("raise"), or the browser was
\* launched and new_context or new_page failed ("raise_open")
NewPage(outcome) ==
    /\ pc = "page"
    /\ browser' = (browser \/ outcome \in {"ok", "raise_open"})
    /\ page_open' = (outcome = "ok")
    /\ UNCHANGED closed
    /\ IF outcome # "ok"
       THEN /\ pc' = "idle"
            /\ runs' = runs + 1
            /\ results' = RecordResult(results, urls[runs + 1], TRUE, <<>>)
            /\ run_log' = Append(run_log,
                  EarlyExit(urls[runs + 1], product_id, incremental,
                            max_reviews, TRUE))
       ELSE /\ pc' = "open"
            /\ UNCHANGED <<runs, results, run_log>>
    /\ UNCHANGED <<settings, date_call, saved_count, source, now, reviews, metadata, product_id, incremental,
                   max_reviews, last_review_date, last_review_ids, page_view,
                   page_num, raw_reviews, all_reviews, save_i, stop_reason,
                   last_page, pages_collected, nav_log, perm_raw, perm_reviews,
                   urls, listing_view, store_calls>>

\* the listing view is reached without the reviews tab
ListingReachedNoTab(outcome) == outcome \in {"direct", "fallback", "no_tab"}

\* lines 1866-1880: the listing URL opened ("direct"); or it failed, the
\* product page opened and the reviews tab was clicked ("fallback"); or the
\* product page failed too ("no_page"); or the tab was not found ("no_tab")
ListingReached(outcome) == outcome \in {"direct", "fallback"}

\* lines 1858-1890: the listing URL, else the product page and the tab;
\* return [] when neither is reached, and the finally clause closes the page
OpenListing(outcome) ==
    /\ pc = "open"
    /\ listing_view' = outcome
    /\ page_open' = ListingReached(outcome)
    /\ UNCHANGED <<browser, closed>>
    /\ IF ListingReached(outcome)
       THEN /\ pc' = "collect"
            /\ page_view' = 1
            /\ page_num' = 1
            /\ raw_reviews' = <<>>
            /\ UNCHANGED <<all_reviews, save_i>>
       ELSE /\ pc' = "flush"
            /\ all_reviews' = <<>>
            /\ save_i' = 1
            /\ UNCHANGED <<page_view, page_num, raw_reviews>>
    /\ UNCHANGED <<settings, date_call, saved_count, source, now, reviews, metadata, runs, product_id, incremental,
                   max_reviews, last_review_date, last_review_ids, stop_reason,
                   last_page, pages_collected, nav_log, run_log, perm_raw,
                   perm_reviews, coordinator, store_calls>>

\* lines 1892-1920: one iteration of the page loop
CollectPage ==
    /\ pc = "collect"
    /\ LET page == source[page_view]
           page_reviews == Stamp(_collect_reviews_from_page(page), product_id)
           raw == raw_reviews \o page_reviews
           nav_ok == _navigate_to_next_reviews_page(source, page_view)
           dec == LoopDecision(page_reviews, raw, max_reviews, nav_ok)
       IN  /\ raw_reviews' = raw
           /\ pages_collected' = pages_collected + 1
           /\ last_page' = [indicator |-> page.indicator, size |-> Len(page_reviews)]
           /\ nav_log' = IF dec.nav
                         THEN Append(nav_log, [indicator |-> page.indicator,
                                               page_len |-> Len(page_reviews),
                                               raw_len |-> Len(raw)])
                         ELSE nav_log
           /\ stop_reason' = StopReason(dec.site, page.indicator)
           /\ IF dec.site = "none"
              THEN /\ page_num' = page_num + 1
                   /\ page_view' = NextView(source, page_view)
                   /\ pc' = "collect"
              ELSE /\ pc' = "filter"
                   /\ page_view' = IF dec.nav /\ nav_ok
                                    THEN NextView(source, page_view) ELSE page_view
                   /\ UNCHANGED page_num
    /\ UNCHANGED <<settings, date_call, adapter, saved_count, source, now, reviews, metadata, runs, product_id, incremental,
                   max_reviews, last_review_date, last_review_ids, all_reviews,
                   save_i, run_log, perm_raw, perm_reviews, coordinator,
                   listing_view, store_calls>>

\* a filter that moves the stored watermark to the first record it keeps
FilterAndMark ==
    /\ pc = "filter"
    /\ \E clk \in Readings(now, Len(raw_reviews)) :
          /\ all_reviews' = FilterReviews(incremental, last_review_date,
                                          last_review_ids, raw_reviews, clk)
          /\ now' = IF clk = <<>> THEN now ELSE clk[Len(clk)]
    /\ metadata' = IF all_reviews' = <<>> THEN metadata
                   ELSE [metadata EXCEPT ![product_id].last_review_date =
                            all_reviews'[1].date]
    /\ save_i' = 1
    /\ pc' = "flush"
    /\ page_open' = FALSE
    /\ UNCHANGED <<browser, closed>>
    /\ UNCHANGED <<settings, date_call, saved_count, source, reviews, runs, product_id, incremental,
                   max_reviews, last_review_date, last_review_ids, page_view,
                   page_num, raw_reviews, stop_reason, last_page, pages_collected,
                   nav_log, run_log, perm_raw, perm_reviews, coordinator,
                   listing_view, store_calls>>

\* lines 1924-1945: the incremental filter, then the page is closed.  Each
\* call of _is_newer_review reads the clock anew (parse_date, line 2023)
Filter ==
    /\ pc = "filter"
    /\ \E clk \in Readings(now, Len(raw_reviews)) :
          /\ all_reviews' = FilterReviews(incremental, last_review_date,
                                          last_review_ids, raw_reviews, clk)
          /\ now' = IF clk = <<>> THEN now ELSE clk[Len(clk)]
    /\ save_i' = 1
    /\ pc' = "flush"
    /\ page_open' = FALSE
    /\ UNCHANGED <<browser, closed>>
    /\ UNCHANGED <<settings, date_call, saved_count, source, reviews, metadata, runs, product_id, incremental,
                   max_reviews, last_review_date, last_review_ids, page_view,
                   page_num, raw_reviews, stop_reason, last_page, pages_collected,
                   nav_log, run_log, perm_raw, perm_reviews, coordinator,
                   listing_view, store_calls>>

\* lines 1948-1950 and save_reviews: one save_review of the flush.  When
\* update_product_metadata raises (the metadata file is no UTF-8 text), the
\* exception leaves save_reviews and parse_product_reviews, whose page is
\* closed by then: the records that follow are not saved, and the
\* coordinator catches the exception
SaveReview ==
    /\ pc = "flush"
    /\ save_i <= Len(all_reviews)
    /\ \E window \in Windows(_load_metadata[all_reviews[save_i].product_id],
                             IdArg(all_reviews[save_i])), stamp \in StampLens :
          save_review(all_reviews[save_i], window, stamp)
    /\ IF /\ UnicodeDecodeError
          /\ ~review_exists(reviews[all_reviews[save_i].product_id],
                            all_reviews[save_i])
       THEN /\ pc' = "idle"
            /\ all_reviews' = <<>>
            /\ save_i' = 1
            /\ runs' = runs + 1
            /\ results' = RecordResult(results, urls[runs + 1], TRUE, <<>>)
            /\ run_log' = Append(run_log,
                  [url |-> urls[runs + 1], product |-> product_id, failed |-> TRUE,
                   listing |-> listing_view,
                   incremental |-> incremental, max_reviews |-> max_reviews,
                   opened |-> pages_collected > 0, pages |-> pages_collected,
                   navs |-> Len(nav_log), raw |-> Len(raw_reviews), accepted |-> 0,
                   saved |-> 0, stop_reason |-> stop_reason])
            /\ UNCHANGED saved_count
       ELSE /\ saved_count' =
                  IF review_exists(reviews[all_reviews[save_i].product_id],
                                   all_reviews[save_i])
                  THEN saved_count
                  ELSE saved_count + 1
            /\ save_i' = save_i + 1
            /\ UNCHANGED <<pc, all_reviews, runs, results, run_log>>
    /\ UNCHANGED <<settings, date_call, adapter, source, now, product_id,
                   incremental, max_reviews, last_review_date, last_review_ids,
                   page_view, page_num, raw_reviews, stop_reason,
                   last_page, pages_collected, nav_log, perm_raw,
                   perm_reviews, urls, listing_view, next_id, writers>>

\* line 1954: return all_reviews; the coordinator records their number
Return ==
    /\ pc = "flush"
    /\ save_i > Len(all_reviews)
    /\ run_log' = Append(run_log,
          [url |-> urls[runs + 1], product |-> product_id, failed |-> FALSE,
           listing |-> listing_view,
           incremental |-> incremental, max_reviews |-> max_reviews,
           opened |-> pages_collected > 0, pages |-> pages_collected,
           navs |-> Len(nav_log), raw |-> Len(raw_reviews), accepted |-> Len(all_reviews),
           saved |-> saved_count, stop_reason |-> stop_reason])
    /\ results' = RecordResult(results, urls[runs + 1], FALSE, all_reviews)
    /\ runs' = runs + 1
    /\ pc' = "idle"
    /\ UNCHANGED <<settings, date_call, adapter, saved_count, source, now, reviews, metadata, product_id, incremental,
                   max_reviews, last_review_date, last_review_ids, page_view,
                   page_num, raw_reviews, all_reviews, save_i, stop_reason,
                   last_page, pages_collected, nav_log, perm_raw, perm_reviews,
                   urls, listing_view, store_calls>>

\* the coordinator's finally clause after its loop (main.py line 87,
\* scheduled_parser.py line 148): parser.close(), which is self.db.close()
\* (line 2063), and the storage has nothing to close (json_storage.py lines
\* 209-212); _close_browser is not called
Close ==
    /\ pc = "idle"
    /\ runs = Len(urls)
    /\ ~closed
    /\ closed' = TRUE
    /\ UNCHANGED <<browser, page_open>>
    /\ UNCHANGED <<settings, date_call, saved_count, source, now, reviews, metadata,
                   pc, runs, product_id, incremental, max_reviews,
                   last_review_date, last_review_ids, page_view, page_num,
                   raw_reviews, all_reviews, save_i, stop_reason, last_page,
                   pages_collected, nav_log, run_log, perm_raw, perm_reviews,
                   coordinator, listing_view, store_calls>>

Next ==
    \/ \E arg \in MaxArgs, inc \in BOOLEAN : Start(arg, inc)
    \/ \E outcome \in {"ok", "raise", "raise_open"} : NewPage(outcome)
    \/ \E outcome \in {"direct", "fallback", "no_page", "no_tab"} : OpenListing(outcome)
    \/ CollectPage
    \/ Filter
    \/ SaveReview
    \/ Return
    \/ Close

Spec == Init /\ [][Next]_vars

(***************************************************************************)
(* One crawl of a source of which an earlier crawl has stored the first k  *)
(* pages (k = 0: the store is empty).                                      *)
(***************************************************************************)
RECURSIVE PriorRecords(_, _)
\* the records of pages 1..k
PriorRecords(src, k) ==
    IF k <= 0 THEN <<>>
    ELSE PriorRecords(src, k - 1) \o Stamp(_collect_reviews_from_page(src[k]), "101")

RECURSIVE SavedMetadata(_, _)
\* the metadata files save_review of recs[1..i] can leave on an empty store:
\* one for every slice of the ids and every text of last_parsed
SavedMetadata(recs, i) ==
    IF i <= 0 THEN {NewStore}
    ELSE UNION {{update_product_metadata(md, "101", recs[i].date, IdArg(recs[i]),
                                         i, w, stamp) :
                    w \in Windows(md["101"], IdArg(recs[i])), stamp \in StampLens} :
                md \in SavedMetadata(recs, i - 1)}

InitCrawl ==
    /\ source \in SmallSources
    /\ now \in NowValues
    /\ \E k \in 0..Len(source) :
          /\ \A i \in 1..k : _collect_reviews_from_page(source[i]) # <<>>
          /\ reviews = [p \in Products |->
                IF p = "101" THEN PriorRecords(source, k) ELSE <<>>]
          /\ metadata \in SavedMetadata(PriorRecords(source, k),
                                         Len(PriorRecords(source, k)))
    /\ Idle
    /\ runs = MaxRuns - 1
    /\ run_log = <<>>
    /\ perm_raw = <<>>
    /\ perm_reviews = <<>>
    /\ urls = [i \in 1..MaxRuns |-> UrlSuffix]
    /\ results = [u \in Urls |-> NoCount]
    /\ NoStoreCalls
    /\ NewParser
    /\ Plain

SpecCrawl == InitCrawl /\ [][Next]_vars

(***************************************************************************)
(* One crawl under faults: the metadata file may be corrupt, the parser    *)
(* may run in debug mode, and the browser may raise inside the try block   *)
(* of parse_product_reviews.                                               *)
(***************************************************************************)
InitFault ==
    /\ source \in SmallSources
    /\ now \in NowValues
    /\ \E k \in 0..Len(source) :
          /\ \A i \in 1..k : _collect_reviews_from_page(source[i]) # <<>>
          /\ reviews = [p \in Products |->
                IF p = "101" THEN PriorRecords(source, k) ELSE <<>>]
          /\ metadata \in SavedMetadata(PriorRecords(source, k),
                                         Len(PriorRecords(source, k)))
    /\ Idle
    /\ runs = MaxRuns - 1
    /\ run_log = <<>>
    /\ perm_raw = <<>>
    /\ perm_reviews = <<>>
    /\ urls = [i \in 1..MaxRuns |-> UrlSuffix]
    /\ results = [u \in Urls |-> NoCount]
    /\ next_id = 1
    /\ writers = <<>>
    /\ truncated \in {"no", "json", "utf8"}
    /\ browser = FALSE
    /\ page_open = FALSE
    /\ closed = FALSE
    /\ debug_mode \in BOOLEAN
    /\ saved_count = 0
    /\ Plain

\* an exception inside the try block (lines 1856-1935).  The except clause
\* logs it and, in debug mode, takes a screenshot (lines 1937-1941); the
\* finally clause closes the page (line 1945).  all_reviews is still [] (it is
\* assigned at the end of the try block), so nothing is saved and [] is
\* returned ("caught").  In debug mode the screenshot can raise as well: this
\* exception leaves parse_product_reviews after the finally clause and is
\* caught by the coordinator ("escapes").  page.close() in the finally clause
\* can raise too: the page stays open and this exception leaves
\* parse_product_reviews ("close_raises").
Raise(outcome) ==
    /\ pc \in {"open", "collect", "filter"}
    /\ (outcome = "escapes") => debug_mode
    /\ page_open' = IF outcome = "close_raises" THEN page_open ELSE FALSE
    /\ UNCHANGED <<browser, closed>>
    /\ stop_reason' = "error"
    /\ all_reviews' = <<>>
    /\ save_i' = 1
    /\ IF outcome \in {"escapes", "close_raises"}
       THEN /\ pc' = "idle"
            /\ runs' = runs + 1
            /\ results' = RecordResult(results, urls[runs + 1], TRUE, <<>>)
            /\ run_log' = Append(run_log,
                  [url |-> urls[runs + 1], product |-> product_id, failed |-> TRUE,
                   listing |-> listing_view,
                   incremental |-> incremental, max_reviews |-> max_reviews,
                   opened |-> pages_collected > 0, pages |-> pages_collected,
                   navs |-> Len(nav_log), raw |-> Len(raw_reviews), accepted |-> 0,
                   saved |-> 0, stop_reason |-> "error"])
       ELSE /\ pc' = "flush"
            /\ UNCHANGED <<runs, results, run_log>>
    /\ UNCHANGED <<settings, date_call, saved_count, source, now, reviews, metadata,
                   product_id, incremental, max_reviews, last_review_date,
                   last_review_ids, page_view, page_num, raw_reviews, last_page,
                   pages_collected, nav_log, perm_raw, perm_reviews, urls,
                   listing_view, store_calls>>

\* page.close() in the finally clause (line 1945) raises after a try block
\* that raised nothing: after the filter at its end ("done"), or after a
\* return [] for a listing that was not reached ("no_page", "no_tab").  The
\* page stays open, save_reviews (lines 1948-1950) is not reached, and the
\* exception is caught by the coordinator.
ClosePageRaises(outcome) ==
    /\ IF outcome = "done" THEN pc = "filter" ELSE pc = "open"
    /\ listing_view' = IF outcome = "done" THEN listing_view ELSE outcome
    /\ all_reviews' = <<>>
    /\ save_i' = 1
    /\ pc' = "idle"
    /\ runs' = runs + 1
    /\ results' = RecordResult(results, urls[runs + 1], TRUE, <<>>)
    /\ run_log' = Append(run_log,
          [url |-> urls[runs + 1], product |-> product_id, failed |-> TRUE,
           listing |-> listing_view',
           incremental |-> incremental, max_reviews |-> max_reviews,
           opened |-> pages_collected > 0, pages |-> pages_collected,
           navs |-> Len(nav_log), raw |-> Len(raw_reviews), accepted |-> 0,
           saved |-> 0, stop_reason |-> stop_reason])
    /\ UNCHANGED <<settings, date_call, adapter, saved_count, source, now, reviews,
                   metadata, product_id, incremental, max_reviews,
                   last_review_date, last_review_ids, page_view, page_num,
                   raw_reviews, stop_reason, last_page, pages_collected, nav_log,
                   perm_raw, perm_reviews, urls, store_calls>>

NextFault ==
    \/ \E arg \in MaxArgs, inc \in BOOLEAN : Start(arg, inc)
    \/ \E outcome \in {"ok", "raise", "raise_open"} : NewPage(outcome)
    \/ \E outcome \in {"direct", "fallback", "no_page", "no_tab"} : OpenListing(outcome)
    \/ CollectPage
    \/ \E outcome \in {"caught", "escapes", "close_raises"} : Raise(outcome)
    \/ \E outcome \in {"done", "no_page", "no_tab"} : ClosePageRaises(outcome)
    \/ Filter
    \/ SaveReview
    \/ Return
    \/ Close

SpecFault == InitFault /\ [][NextFault]_vars

(***************************************************************************)
(* Two crawls of one source with the same max_reviews, one in each mode,   *)
(* on a store that is empty or holds the first page.                       *)
(***************************************************************************)
InitPair ==
    /\ source \in SmallSources
    /\ now \in NowValues
    /\ \E k \in 0..1 :
          /\ \A i \in 1..k : _collect_reviews_from_page(source[i]) # <<>>
          /\ reviews = [p \in Products |->
                IF p = "101" THEN PriorRecords(source, k) ELSE <<>>]
          /\ metadata \in SavedMetadata(PriorRecords(source, k),
                                         Len(PriorRecords(source, k)))
    /\ Idle
    /\ runs = 0
    /\ run_log = <<>>
    /\ perm_raw = <<>>
    /\ perm_reviews = <<>>
    /\ urls = <<UrlSuffix, UrlSuffix>>
    /\ results = [u \in Urls |-> NoCount]
    /\ NoStoreCalls
    /\ NewParser
    /\ Plain

\* the first call: any max_reviews, any mode
CrawlFirst(arg, inc) == runs = 0 /\ Start(arg, inc)

\* the second call: the same max_reviews, the other mode
CrawlAgain ==
    /\ runs = 1
    /\ \E arg \in MaxArgs :
          /\ ResolveMax(arg) = run_log[1].max_reviews
          /\ Start(arg, ~run_log[1].incremental)

NextPair ==
    \/ \E arg \in MaxArgs, inc \in BOOLEAN : CrawlFirst(arg, inc)
    \/ CrawlAgain
    \/ \E outcome \in {"ok", "raise", "raise_open"} : NewPage(outcome)
    \/ \E outcome \in {"direct", "fallback", "no_page", "no_tab"} : OpenListing(outcome)
    \/ CollectPage
    \/ Filter
    \/ SaveReview
    \/ Return
    \/ Close

SpecPair == InitPair /\ [][NextPair]_vars

(***************************************************************************)
(* A run of a coordinator over a list of URLs, on an empty store or with a *)
(* metadata file whose bytes are not UTF-8 (a Cyrillic date cut inside a   *)
(* letter).  Every product shows the same one-page listing.                *)
(***************************************************************************)
InitRun ==
    /\ urls \in UNION {[1..n -> Urls] : n \in 1..MaxUrls}
    /\ source \in {MkSource(<<sh>>, "newest_first") :
                       sh \in {x \in PageShapes : x.n = 1 /\ ~x.indicator}}
    /\ now \in NowValues
    /\ reviews = [p \in Products |-> <<>>]
    /\ truncated \in {"no", "utf8"}
    /\ metadata = IF truncated = "no" THEN NewStore
                  ELSE update_product_metadata(NewStore, "101", D12, <<>>, NoTotal, {},
                                               Max(StampLens))
    /\ Idle
    /\ runs = 0
    /\ run_log = <<>>
    /\ perm_raw = <<>>
    /\ perm_reviews = <<>>
    /\ results = [u \in Urls |-> NoCount]
    /\ next_id = 1
    /\ writers = <<>>
    /\ NewParser
    /\ Plain

\* parse_multiple_products line 2049: self.parse_product_reviews(url), with
\* the defaults for max_reviews and incremental
Process == Start([given |-> FALSE, val |-> 0], INCREMENTAL_PARSING)

NextRun ==
    \/ Process
    \/ \E outcome \in {"ok", "raise", "raise_open"} : NewPage(outcome)
    \/ \E outcome \in {"direct", "fallback", "no_page", "no_tab"} : OpenListing(outcome)
    \/ CollectPage
    \/ Filter
    \/ Raise("close_raises")
    \/ \E outcome \in {"done", "no_page", "no_tab"} : ClosePageRaises(outcome)
    \/ SaveReview
    \/ Return
    \/ Close

SpecRun == InitRun /\ [][NextRun]_vars

(***************************************************************************)
(* The store under direct calls of update_product_metadata and             *)
(* save_review.  Product "101" starts with the reviews 1..n of an earlier  *)
(* flush; the calls bring review ids that were never used (next_id         *)
(* onwards), ids that were, and empty ids.                                 *)
(***************************************************************************)
StoredBefore == {WindowSize - 1}

\* the reviews 1..n, all of one date
FirstReviews(n) == [i \in 1..n |-> Review(i, D10)]

\* the metadata entry after save_review of these reviews on an empty store
\* (n is at most the size of the window), stamp the length of last_parsed
FirstMetadata(n, stamp) ==
    IF n = 0 THEN EmptyProductData
    ELSE [last_review_date |-> D10, last_review_ids |-> 1..n, total_reviews |-> n,
          last_parsed |-> stamp,
          keys |-> <<"last_review_date", "last_review_ids", "total_reviews",
                     "last_parsed">>,
          rank |-> 1]

InitStore ==
    /\ \E n \in StoredBefore, stamp \in StampLens :
          /\ reviews = [p \in Products |-> IF p = "101" THEN FirstReviews(n) ELSE <<>>]
          /\ metadata = [p \in Products |->
                IF p = "101" THEN FirstMetadata(n, stamp) ELSE EmptyProductData]
          /\ next_id = n + 1
    /\ source = <<[indicator |-> TRUE, error |-> FALSE, recs |-> <<>>]>>
    /\ now \in NowValues
    /\ Idle
    /\ runs = 0
    /\ run_log = <<>>
    /\ perm_raw = <<>>
    /\ perm_reviews = <<>>
    /\ urls = <<>>
    /\ results = [u \in Urls |-> NoCount]
    /\ writers = <<>>
    /\ truncated = "no"
    /\ NewParser
    /\ Plain

\* the number of ids of the list that were never used: the ids of the store
\* that were never used are next_id, next_id + 1, ...
Fresh(ids) == Cardinality(SeqToSet(ids) \ (1..(next_id - 1) \cup {NoId}))

\* the last_review_ids arguments of a call: no list, an empty id, an id used
\* before, an id never used, the same id twice, two ids never used, a used
\* and a new id
IdList(shape) ==
    CASE shape = "none" -> <<>>
      [] shape = "empty" -> <<NoId>>
      [] shape = "used" -> <<1>>
      [] shape = "new" -> <<next_id>>
      [] shape = "twice" -> <<next_id, next_id>>
      [] shape = "two_new" -> <<next_id, next_id + 1>>
      [] OTHER -> <<1, next_id>>

\* the ids of the stored reviews are counted from the first review on
CallBound(ids) == next_id + Fresh(ids) - 1 <= Max(StoredBefore) + MaxNewIds

\* a call update_product_metadata(pid, date, ids, total)
StoreUpdate(pid, date, shape, total) ==
    /\ pc = "idle"
    /\ urls = <<>>
    /\ CallBound(IdList(shape))
    /\ ~UnicodeDecodeError
    /\ \E window \in Windows(_load_metadata[pid], IdList(shape)),
          stamp \in StampLens :
          metadata' = update_product_metadata(_load_metadata, pid, date,
                                              IdList(shape), total, window, stamp)
    /\ truncated' = "no"
    /\ next_id' = next_id + Fresh(IdList(shape))
    /\ UNCHANGED <<settings, date_call, adapter, saved_count, source, now, reviews, pc, runs, product_id, incremental,
                   max_reviews, last_review_date, last_review_ids, page_view,
                   page_num, raw_reviews, all_reviews, save_i, stop_reason,
                   last_page, pages_collected, nav_log, run_log, perm_raw,
                   perm_reviews, coordinator, listing_view, writers>>

\* a call save_review(review)
StoreSave(pid, shape, date) ==
    /\ pc = "idle"
    /\ urls = <<>>
    /\ CallBound(IdList(shape))
    /\ LET review == [Review(IdList(shape)[1], date) EXCEPT !.product_id = pid]
       IN  \E window \in Windows(_load_metadata[pid], IdArg(review)),
              stamp \in StampLens :
              save_review(review, window, stamp)
    /\ next_id' = next_id + Fresh(IdList(shape))
    /\ UNCHANGED <<settings, date_call, adapter, saved_count, source, now, pc, runs, product_id, incremental,
                   max_reviews, last_review_date, last_review_ids, page_view,
                   page_num, raw_reviews, all_reviews, save_i, stop_reason,
                   last_page, pages_collected, nav_log, run_log, perm_raw,
                   perm_reviews, coordinator, listing_view, writers>>

NextStore ==
    \/ \E pid \in Products,
            shape \in {"none", "empty", "used", "new", "twice", "two_new", "used_new"} :
          StoreUpdate(pid, NoneDate, shape, NoTotal)
    \/ \E shape \in {"empty", "used", "new"} : StoreSave("101", shape, D12)

SpecStore == InitStore /\ [][NextStore]_vars

(***************************************************************************)
(* One crawl with max_reviews >= 1 of a listing that may be endless, on an *)
(* empty store.  The page loop is sequential code: a loop that can take    *)
(* its next iteration takes it.                                            *)
(***************************************************************************)
InitEndless ==
    /\ endless \in BOOLEAN
    /\ source \in SmallSources
    /\ now \in NowValues
    /\ reviews = [p \in Products |-> <<>>]
    /\ metadata = NewStore
    /\ Idle
    /\ runs = 0
    /\ run_log = <<>>
    /\ perm_raw = <<>>
    /\ perm_reviews = <<>>
    /\ urls = <<UrlSuffix>>
    /\ results = [u \in Urls |-> NoCount]
    /\ NoStoreCalls
    /\ NewParser
    /\ force_full = FALSE
    /\ url_file = <<>>
    /\ review_date_str = NoneDate
    /\ review_date = NotParsed

\* parse_product_reviews(url, max_reviews, incremental) with max_reviews >= 1
StartCapped(val, inc) ==
    /\ val >= 1
    /\ Start([given |-> TRUE, val |-> val], inc)

NextEndless ==
    \/ \E val \in 1..MaxCap, inc \in BOOLEAN : StartCapped(val, inc)
    \/ \E outcome \in {"ok", "raise", "raise_open"} : NewPage(outcome)
    \/ \E outcome \in {"direct", "fallback", "no_page", "no_tab"} : OpenListing(outcome)
    \/ CollectPage
    \/ Filter
    \/ SaveReview
    \/ Return
    \/ Close

SpecEndless == InitEndless /\ [][NextEndless]_vars /\ WF_vars(CollectPage)

(***************************************************************************)
(* The scheduled run (scheduled_parser.py).  A line of the URL file is     *)
(* described by what read_urls looks at: whether it is blank or starts     *)
(* with "#", its first token (the URL) and its second and third tokens.    *)
(* A token is absent, a decimal number, or another word, held as the       *)
(* sequence of its characters; a character outside ASCII is written by its *)
(* code point ("U+0424").                                                  *)
(***************************************************************************)
Absent == [kind |-> "absent", num |-> 0, word |-> <<>>]

Number(n) == [kind |-> "number", num |-> n, word |-> <<>>]

Word(w) == [kind |-> "word", num |-> 0, word |-> w]

Line(url, second, third) ==
    [comment |-> FALSE, url |-> url, second |-> second, third |-> third]

CommentLine == [comment |-> TRUE, url |-> UrlNoId, second |-> Absent, third |-> Absent]

\* the letters A..Z and a..z
Alphabet ==
    [capital |-> <<"A", "B", "C", "D", "E", "F", "G", "H", "I", "J", "K", "L", "M",
                   "N", "O", "P", "Q", "R", "S", "T", "U", "V", "W", "X", "Y", "Z">>,
     small   |-> <<"a", "b", "c", "d", "e", "f", "g", "h", "i", "j", "k", "l", "m",
                   "n", "o", "p", "q", "r", "s", "t", "u", "v", "w", "x", "y", "z">>]

\* an optional value: None, or a value
None == [given |-> FALSE, val |-> 0]

Some(v) == [given |-> TRUE, val |-> v]

NoneMode == [given |-> FALSE, val |-> FALSE]

\* lines 63-76 for one line: (url, max_reviews, incremental).  The code
\* compares parts[i].lower() with "incremental" and with "full".  str.lower()
\* gives one character or more for each character of the word, and gives a
\* small ASCII letter for that letter, for its capital and, for "k", for the
\* Kelvin sign (U+212A); every other character, the capital I with a dot
\* (U+0130, which becomes "i" and U+0307) among them, gives text outside
\* ASCII or itself.  So the lowered word is the mode word m when the two
\* have the same length and each character is the letter of m or lowers to it
ReadLine(line) ==
    LET inc == <<"i", "n", "c", "r", "e", "m", "e", "n", "t", "a", "l">>
        full == <<"f", "u", "l", "l">>
        lower_is(w, m) ==
            /\ Len(w) = Len(m)
            /\ \A i \in 1..Len(w) :
                  \/ w[i] = m[i]
                  \/ \E k \in 1..26 : Alphabet.capital[k] = w[i] /\ Alphabet.small[k] = m[i]
                  \/ w[i] = "U+212A" /\ m[i] = "k"
        is_mode(w) == lower_is(w, inc) \/ lower_is(w, full)
        max_reviews_ == IF line.second.kind = "number"
                        THEN Some(line.second.num) ELSE None
        second_mode == IF line.second.kind = "word" /\ is_mode(line.second.word)
                       THEN Some(lower_is(line.second.word, inc))
                       ELSE NoneMode
        incremental_ == IF line.third.kind = "word" /\ is_mode(line.third.word)
                        THEN Some(lower_is(line.third.word, inc))
                        ELSE second_mode
    IN  [url |-> line.url, max_reviews |-> max_reviews_, incremental |-> incremental_]

RECURSIVE read_urls(_)
\* lines 52-80: blank lines and comments are skipped
read_urls(file) ==
    IF file = <<>> THEN <<>>
    ELSE IF Head(file).comment THEN read_urls(Tail(file))
    ELSE <<ReadLine(Head(file))>> \o read_urls(Tail(file))

\* a main that lets the line's mode stand against --full
PassedModeLineFirst(entry, full) ==
    IF entry.incremental.given THEN entry.incremental.val
    ELSE IF full THEN FALSE
    ELSE INCREMENTAL_PARSING

\* main lines 115-120: the mode passed to parse_product_reviews
PassedMode(entry, full) ==
    IF full THEN FALSE
    ELSE IF ~entry.incremental.given THEN INCREMENTAL_PARSING
    ELSE entry.incremental.val

\* main lines 122-123
PassedMax(entry) ==
    IF ~entry.max_reviews.given THEN MAX_REVIEWS_PER_PRODUCT
    ELSE entry.max_reviews.val

\* the URL lines of the model: no token after the URL; a mode word in
\* capitals; a number and a mode word, in small letters and in mixed case;
\* two mode words; a mode word and another word; a number and a word with
\* the capital I with a dot, which is no mode word in lower case
Lines ==
    {Line(UrlSuffix, Absent, Absent),
     Line(UrlSuffix, Word(<<"F", "U", "L", "L">>), Absent),
     Line(UrlSuffix, Number(MaxCap), Word(<<"f", "u", "l", "l">>)),
     Line(UrlSuffix, Number(MaxCap), Word(<<"I", "n", "c", "r", "e", "m", "e", "n", "t", "a", "l">>)),
     Line(UrlSuffix, Word(<<"f", "u", "l", "l">>), Word(<<"I", "N", "C", "R", "E", "M", "E", "N", "T", "A", "L">>)),
     Line(UrlSuffix, Word(<<"F", "u", "L", "L">>), Word(<<"f", "a", "s", "t">>)),
     Line(UrlSuffix, Number(MaxCap), Word(<<"U+0130", "n", "c", "r", "e", "m", "e", "n", "t", "a", "l">>))}

\* the file f with a comment line before its k-th line (k = 0: no comment)
WithComment(f, k) ==
    IF k = 0 THEN f
    ELSE SubSeq(f, 1, k - 1) \o <<CommentLine>> \o SubSeq(f, k, Len(f))

\* files of 1..MaxLines URL lines (main returns 1 at line 102 when read_urls
\* finds none, before a parser is made), without a comment line and with
\* one after the first line
UrlFiles ==
    UNION {{WithComment(f, k) : k \in {0, 2}} :
              f \in UNION {[1..n -> Lines] : n \in 1..MaxLines}}

SchedSources ==
    {MkSource(<<[indicator |-> FALSE, error |-> FALSE, n |-> 1]>>, "newest_first")}

\* main lines 82-108: the file was read, the parser made
InitSched ==
    /\ url_file \in UrlFiles
    /\ force_full \in BOOLEAN
    /\ urls = [i \in 1..Len(read_urls(url_file)) |-> read_urls(url_file)[i].url]
    /\ source \in SchedSources
    /\ now \in NowValues
    /\ reviews = [p \in Products |-> <<>>]
    /\ metadata = NewStore
    /\ Idle
    /\ runs = 0
    /\ run_log = <<>>
    /\ perm_raw = <<>>
    /\ perm_reviews = <<>>
    /\ results = [u \in Urls |-> NoCount]
    /\ NoStoreCalls
    /\ NewParser
    /\ endless = FALSE
    /\ review_date_str = NoneDate
    /\ review_date = NotParsed

\* main lines 113-130: the next entry, parse_product_reviews(url, max_reviews,
\* incremental)
ProcessLine ==
    /\ runs < Len(read_urls(url_file))
    /\ Start(Some(PassedMax(read_urls(url_file)[runs + 1])),
             PassedMode(read_urls(url_file)[runs + 1], force_full))

NextSched ==
    \/ ProcessLine
    \/ \E outcome \in {"ok", "raise"} : NewPage(outcome)
    \/ OpenListing("direct")
    \/ CollectPage
    \/ Filter
    \/ SaveReview
    \/ Return
    \/ Close

SpecSched == InitSched /\ [][NextSched]_vars

(***************************************************************************)
(* One call of parse_date on a drawn date text: every form, every day      *)
(* number 0..32 and month number 0..13 (for the numeric forms the first    *)
(* and the second number of "a.b.yyyy" and "a/b/yyyy", for "iso" the third *)
(* and the second of "yyyy-b-a", for "ru" the day number and the number    *)
(* months_ru gives the month word, 0 for another word), in a leap year and *)
(* in a common year, alone, followed by other words, and followed by a     *)
(* time of day with and without "Z".                                       *)
(***************************************************************************)
DateTexts ==
    {DateTextTail(f, dd, mm, yy, tl.tail, tl.tick, tl.utc) :
        f \in {"dot", "ru", "iso", "basic", "slash"}, dd \in 0..32, mm \in 0..13,
        yy \in {2024, 2025},
        tl \in {[tail |-> "", tick |-> 0, utc |-> FALSE],
                [tail |-> "text", tick |-> 0, utc |-> FALSE]}
                 \cup {[tail |-> "time", tick |-> k, utc |-> z] :
                          k \in 0..(TicksPerDay - 1), z \in BOOLEAN}}
      \cup {JunkDate, EmptyDate}

InitDate ==
    /\ review_date_str \in DateTexts
    /\ review_date = NotParsed
    /\ source = <<[indicator |-> TRUE, error |-> FALSE, recs |-> <<>>]>>
    /\ now \in NowValues
    /\ reviews = [p \in Products |-> <<>>]
    /\ metadata = NewStore
    /\ Idle
    /\ runs = 0
    /\ run_log = <<>>
    /\ perm_raw = <<>>
    /\ perm_reviews = <<>>
    /\ urls = <<>>
    /\ results = [u \in Urls |-> NoCount]
    /\ NoStoreCalls
    /\ NewParser
    /\ endless = FALSE
    /\ force_full = FALSE
    /\ url_file = <<>>

\* review_date = parse_date(review_date_str), lines 1988-2026
ParseDate ==
    /\ review_date = NotParsed
    /\ review_date' = parse_date(review_date_str, now)
    /\ UNCHANGED <<settings, adapter, saved_count, review_date_str, source, now,
                   reviews, metadata, pc, runs, product_id, incremental,
                   max_reviews, last_review_date, last_review_ids, page_view,
                   page_num, raw_reviews, all_reviews, save_i, stop_reason,
                   last_page, pages_collected, nav_log, run_log, perm_raw,
                   perm_reviews, coordinator, listing_view, store_calls>>

NextDate == ParseDate

SpecDate == InitDate /\ [][NextDate]_vars

(***************************************************************************)
(* A call save_reviews(reviews) on a drawn list of records: records of     *)
(* both products, with ids that are stored, new, repeated or empty, with   *)
(* and without a date.  pc = "flush" is the loop of save_reviews, save_i   *)
(* its position, saved_count its counter.  Product "101" starts with the   *)
(* reviews 1..n of an earlier flush (next_id = n + 1).                     *)
(***************************************************************************)
FlushRecords ==
    {[Review(id, date) EXCEPT !.product_id = p] :
        id \in {NoId, 1, 2}, date \in {D10, D12, EmptyDate}, p \in Products}

InitFlush ==
    /\ all_reviews \in UNION {[1..n -> FlushRecords] : n \in 0..MaxFlush}
    /\ raw_reviews = all_reviews
    /\ \E n \in {0, 1}, stamp \in StampLens :
          /\ reviews = [p \in Products |-> IF p = "101" THEN FirstReviews(n) ELSE <<>>]
          /\ metadata = [p \in Products |->
                IF p = "101" THEN FirstMetadata(n, stamp) ELSE EmptyProductData]
          /\ next_id = n + 1
    /\ writers = <<>>
    /\ truncated = "no"
    /\ source = <<[indicator |-> FALSE, error |-> FALSE, recs |-> all_reviews]>>
    /\ now \in NowValues
    /\ pc = "flush"
    /\ save_i = 1
    /\ saved_count = 0
    /\ runs = 0
    /\ product_id = "101"
    /\ incremental = FALSE
    /\ max_reviews = MAX_REVIEWS_PER_PRODUCT
    /\ last_review_date = NoneDate
    /\ last_review_ids = {}
    /\ page_view = 1
    /\ page_num = 1
    /\ stop_reason = IF raw_reviews = <<>> THEN "noRecordsOnPage" ELSE "exhausted"
    /\ last_page = [indicator |-> FALSE, size |-> Len(raw_reviews)]
    /\ pages_collected = 1
    /\ nav_log = IF raw_reviews = <<>> THEN <<>>
                 ELSE <<[indicator |-> FALSE, page_len |-> Len(raw_reviews),
                         raw_len |-> Len(raw_reviews)]>>
    /\ run_log = <<>>
    /\ perm_raw = <<>>
    /\ perm_reviews = <<>>
    /\ urls = <<UrlSuffix>>
    /\ results = [u \in Urls |-> NoCount]
    /\ listing_view = "direct"
    /\ browser = TRUE
    /\ page_open = FALSE
    /\ closed = FALSE
    /\ debug_mode = FALSE
    /\ Plain

NextFlush == SaveReview

SpecFlush == InitFlush /\ [][NextFlush]_vars

(***************************************************************************)
(* Two update_product_metadata calls that run at the same time (two        *)
(* parser processes on one storage directory).  A call loads the whole     *)
(* metadata file (line 71), changes its copy (lines 74-104) and writes the *)
(* whole file back (line 107): open(..., 'w') empties the file, the dump   *)
(* fills it.  _load_metadata returns {} for a text that is no JSON, and    *)
(* raises for bytes that are no UTF-8 text.  The file starts with the      *)
(* entry an earlier update_product_metadata("101") has made.               *)
(***************************************************************************)
Procs == {1, 2}

\* the file that call has left; stamp is the length of its last_parsed
EarlierStore(stamp) ==
    update_product_metadata(NewStore, "101", NoneDate, <<>>, NoTotal, {}, stamp)

\* the arguments of the call of process p, and the length of the text its
\* line 104 makes of the clock
Calls(p) ==
    {[pid |-> pid, date |-> date, ids |-> ids, total |-> total, stamp |-> stamp] :
        pid \in Products, date \in {NoneDate, D10, D12},
        ids \in {<<>>, <<p>>}, total \in {NoTotal, p}, stamp \in StampLens}

\* the metadata dict after the lines 74-104 of the call; the calls give two
\* ids at most, of which the slice keeps every one
Updated(md, call) ==
    update_product_metadata(md, call.pid, call.date, call.ids, call.total,
        CHOOSE w \in Windows(md[call.pid], call.ids) : TRUE, call.stamp)

\* a call that has not started
Waiting(call) == [call |-> call, step |-> "load", copy |-> NewStore]

InitUpsert ==
    /\ metadata \in {EarlierStore(stamp) : stamp \in StampLens}
    /\ reviews = [p \in Products |-> <<>>]
    /\ \E c1 \in Calls(1), c2 \in Calls(2) :
          writers = <<Waiting(c1), Waiting(c2)>>
    /\ truncated = "no"
    /\ next_id = 1
    /\ source = <<[indicator |-> TRUE, error |-> FALSE, recs |-> <<>>]>>
    /\ now \in NowValues
    /\ Idle
    /\ runs = 0
    /\ run_log = <<>>
    /\ perm_raw = <<>>
    /\ perm_reviews = <<>>
    /\ urls = <<>>
    /\ results = [u \in Urls |-> NoCount]
    /\ NewParser
    /\ Plain

\* line 71 and lines 74-104: load the file, change the copy; a load that
\* raises ends the call
UpLoad(p) ==
    /\ p \in DOMAIN writers
    /\ writers[p].step = "load"
    /\ writers' = IF UnicodeDecodeError
                  THEN [writers EXCEPT ![p].step = "done"]
                  ELSE [writers EXCEPT ![p].step = "save",
                                       ![p].copy = Updated(_load_metadata,
                                                           writers[p].call)]
    /\ UNCHANGED <<settings, date_call, adapter, saved_count, source, now, reviews, metadata, pc, runs, product_id,
                   incremental, max_reviews, last_review_date, last_review_ids,
                   page_view, page_num, raw_reviews, all_reviews, save_i,
                   stop_reason, last_page, pages_collected, nav_log, run_log,
                   perm_raw, perm_reviews, coordinator, listing_view, next_id,
                   truncated>>

\* _save_metadata line 58: open(self.metadata_file, 'w') empties the file
UpOpen(p) ==
    /\ p \in DOMAIN writers
    /\ writers[p].step = "save"
    /\ writers' = [writers EXCEPT ![p].step = "dump"]
    /\ truncated' = "json"
    /\ UNCHANGED <<settings, date_call, adapter, saved_count, source, now, reviews, metadata, pc, runs, product_id,
                   incremental, max_reviews, last_review_date, last_review_ids,
                   page_view, page_num, raw_reviews, all_reviews, save_i,
                   stop_reason, last_page, pages_collected, nav_log, run_log,
                   perm_raw, perm_reviews, coordinator, listing_view, next_id>>

\* _save_metadata line 59 and the end of the with block: the text of the
\* copy is written from the start of the file and the file closed.  The
\* file is empty unless the other call has written its text since this
\* call opened the file; of a longer text the end stays behind the text
\* written now, and the file cannot be decoded: its bytes are no UTF-8 text
\* when that end starts inside a letter, and else no JSON text
UpDump(p) ==
    /\ p \in DOMAIN writers
    /\ writers[p].step = "dump"
    /\ writers' = [writers EXCEPT ![p].step = "done"]
    /\ IF truncated = "no" /\ TextBytes(metadata) > TextBytes(writers[p].copy)
       THEN /\ truncated' = IF InLetter(metadata, TextBytes(writers[p].copy))
                            THEN "utf8" ELSE "json"
            /\ UNCHANGED metadata
       ELSE /\ metadata' = writers[p].copy
            /\ truncated' = "no"
    /\ UNCHANGED <<settings, date_call, adapter, saved_count, source, now, reviews, pc, runs, product_id,
                   incremental, max_reviews, last_review_date, last_review_ids,
                   page_view, page_num, raw_reviews, all_reviews, save_i,
                   stop_reason, last_page, pages_collected, nav_log, run_log,
                   perm_raw, perm_reviews, coordinator, listing_view, next_id>>

NextUpsert ==
    \/ \E p \in Procs : UpLoad(p)
    \/ \E p \in Procs : UpOpen(p)
    \/ \E p \in Procs : UpDump(p)

SpecUpsert == InitUpsert /\ [][NextUpsert]_vars

\* both calls have returned
UpsertsDone == \A p \in Procs : writers[p].step = "done"

(***************************************************************************)
(* The filter on drawn inputs: a stored watermark, a mode and a raw        *)
(* sequence, at the end of the page loop; the same records are filtered    *)
(* once more in another order.                                             *)
(***************************************************************************)
FilterIds == 1..2
\* with "2024-01-05", "31.02.2024" and "10.01.2024 12:00"
FilterDates ==
    {D10, D12, JunkDate, D05Z,
     DateText("iso", 5, 1, 2024), DateText("dot", 31, 2, 2024),
     DateTextTail("dot", 10, 1, 2024, "time", 2, FALSE)}
WatermarkDates == {NoneDate, D10, D12, JunkDate, D05Z}
FilterRecords == {Review(id, date) : id \in FilterIds, date \in FilterDates}

Perms(q) ==
    {[i \in 1..Len(q) |-> q[f[i]]] :
        f \in {g \in [1..Len(q) -> 1..Len(q)] :
                  \A i, j \in 1..Len(q) : g[i] = g[j] => i = j}}

InitFilter ==
    /\ raw_reviews \in UNION {[1..n -> FilterRecords] : n \in 0..MaxRaw}
    /\ perm_raw \in Perms(raw_reviews)
    /\ source = <<[indicator |-> FALSE, error |-> FALSE, recs |-> raw_reviews]>>
    /\ now \in NowValues
    /\ reviews = [p \in Products |-> <<>>]
    /\ \E date \in WatermarkDates, ids \in {{}, {1}} :
          metadata = update_product_metadata(NewStore, "101", date,
                         (IF ids = {} THEN <<>> ELSE <<1>>), NoTotal, ids,
                         Max(StampLens))
    /\ incremental \in BOOLEAN
    /\ last_review_date = SnapshotDate(incremental, metadata, "101")
    /\ last_review_ids = SnapshotIds(incremental, metadata, "101")
    /\ pc = "filter"
    /\ runs = 0
    /\ product_id = "101"
    /\ max_reviews = MAX_REVIEWS_PER_PRODUCT
    /\ page_view = 1
    /\ page_num = 1
    /\ all_reviews = <<>>
    /\ save_i = 1
    /\ stop_reason = IF raw_reviews = <<>> THEN "noRecordsOnPage" ELSE "exhausted"
    /\ last_page = [indicator |-> FALSE, size |-> Len(raw_reviews)]
    /\ pages_collected = 1
    /\ nav_log = IF raw_reviews = <<>> THEN <<>>
                 ELSE <<[indicator |-> FALSE, page_len |-> Len(raw_reviews),
                         raw_len |-> Len(raw_reviews)]>>
    /\ run_log = <<>>
    /\ perm_reviews = <<>>
    /\ urls = <<UrlSuffix>>
    /\ results = [u \in Urls |-> NoCount]
    /\ listing_view = "direct"
    /\ NoStoreCalls
    /\ browser = TRUE
    /\ page_open = TRUE
    /\ closed = FALSE
    /\ debug_mode = FALSE
    /\ saved_count = 0
    /\ Plain

\* the filter of lines 1925-1935 on the records in the order perm_raw, run
\* after the first one: its calls read the clock from then on
FilterPermuted ==
    /\ pc = "flush"
    /\ \E clk \in Readings(now, Len(perm_raw)) :
          /\ perm_reviews' = FilterReviews(incremental, last_review_date,
                                           last_review_ids, perm_raw, clk)
          /\ now' = IF clk = <<>> THEN now ELSE clk[Len(clk)]
    /\ pc' = "filtered"
    /\ UNCHANGED <<settings, date_call, adapter, saved_count, source, reviews, metadata, runs, product_id, incremental,
                   max_reviews, last_review_date, last_review_ids, page_view,
                   page_num, raw_reviews, all_reviews, save_i, stop_reason,
                   last_page, pages_collected, nav_log, run_log, perm_raw,
                   coordinator, listing_view, store_calls>>

NextFilter == Filter \/ FilterPermuted

SpecFilter == InitFilter /\ [][NextFilter]_vars

Filtered == pc \in {"flush", "filtered"}

\* the number of times record r occurs in q
Count(q, r) == Cardinality({i \in 1..Len(q) : q[i] = r})

\* the date text is in a supported format and names a calendar date
Reliable(date) ==
    /\ date.fmt \in {"dot", "ru", "iso", "slash"}
    /\ date.m \in 1..12
    /\ date.y \in 1..9999
    /\ date.d \in 1..DaysInMonth(date.y, date.m)

Before(d1, d2) ==
    \/ d1.y < d2.y
    \/ d1.y = d2.y /\ d1.m < d2.m
    \/ d1.y = d2.y /\ d1.m = d2.m /\ d1.d < d2.d

StoredDate == metadata["101"].last_review_date
StoredIds == metadata["101"].last_review_ids

(***************************************************************************)
(* C1.  In incremental mode with a baseline date, a record is rejected     *)
(* when its review_id is among the watermark's recent IDs, else rejected   *)
(* when its date is reliable and strictly earlier than the watermark's     *)
(* last review date, else accepted.  Stated for watermark dates that name  *)
(* a calendar date.                                                        *)
(***************************************************************************)
C1_PerRecordDecision ==
    (Filtered /\ incremental /\ Reliable(StoredDate)) =>
        all_reviews = SelectSeq(raw_reviews,
            LAMBDA r : /\ r.review_id \notin StoredIds
                       /\ ~(Reliable(r.date) /\ Before(r.date, StoredDate)))

(***************************************************************************)
(* C7.  The filter is the identity in full mode, and in incremental mode   *)
(* when the stored watermark has no last review date, whatever the stored  *)
(* recent IDs are.                                                         *)
(***************************************************************************)
C7_Passthrough ==
    (Filtered /\ (~incremental \/ StoredDate = NoneDate)) =>
        all_reviews = raw_reviews

C7_Witness ==
    /\ Filtered
    /\ incremental
    /\ StoredDate = NoneDate
    /\ raw_reviews # <<>>
    /\ \A i \in 1..Len(raw_reviews) : raw_reviews[i].review_id \in StoredIds
    /\ all_reviews = raw_reviews

(***************************************************************************)
(* C8.  In incremental mode with a baseline, a record whose date cannot be *)
(* parsed is accepted whenever its review_id is not among the recent IDs,  *)
(* whatever the watermark's last review date is.                           *)
(***************************************************************************)
C8_UnreliableDateIsNew ==
    (Filtered /\ incremental /\ Truthy(StoredDate)) =>
        \A i \in 1..Len(raw_reviews) :
            (~Reliable(raw_reviews[i].date)
                /\ raw_reviews[i].review_id \notin StoredIds)
              => Count(all_reviews, raw_reviews[i]) = Count(raw_reviews, raw_reviews[i])

(***************************************************************************)
(* C9.  Filtering any permutation of the raw sequence accepts exactly the  *)
(* same records as filtering the sequence itself: the decision on a record *)
(* depends only on the record and the watermark, and so neither on the     *)
(* place of the record nor on the time of the call.                        *)
(***************************************************************************)
C9_OrderIndependent ==
    (pc = "filtered") =>
        \A r \in FilterRecords : Count(all_reviews, r) = Count(perm_reviews, r)

(***************************************************************************)
(* C10.  The output of the filter in incremental mode against its output   *)
(* in full mode on the same raw input.                                     *)
(***************************************************************************)
RECURSIVE SubSeqFrom(_, _, _, _)
\* a[i..] is a subsequence of b[j..]
SubSeqFrom(a, i, b, j) ==
    IF i > Len(a) THEN TRUE
    ELSE IF j > Len(b) THEN FALSE
    ELSE IF a[i] = b[j] THEN SubSeqFrom(a, i + 1, b, j + 1)
    ELSE SubSeqFrom(a, i, b, j + 1)

IsSubSeq(a, b) == SubSeqFrom(a, 1, b, 1)

FullOutput ==
    FilterFrom(FALSE, SnapshotDate(FALSE, metadata, "101"),
               SnapshotIds(FALSE, metadata, "101"), raw_reviews, 1,
               [i \in 1..Len(raw_reviews) |-> now])

\* C10 as claimed: the incremental output is a strict subset of the full one
C10_StrictSubset ==
    (Filtered /\ incremental) =>
        (IsSubSeq(all_reviews, FullOutput) /\ all_reviews # FullOutput)

\* C10 amended: the incremental output is a subsequence of the full one
C10_Subset ==
    (Filtered /\ incremental) => IsSubSeq(all_reviews, FullOutput)

C10_Witness ==
    /\ pc = "flush"
    /\ incremental
    /\ Truthy(StoredDate)
    /\ Len(all_reviews) > 0
    /\ Len(all_reviews) < Len(FullOutput)

(***************************************************************************)
(* The traversal against the source.                                       *)
(***************************************************************************)
\* the number of records a page yields
Yield(page) == Len(_collect_reviews_from_page(page))

RECURSIVE Cum(_, _)
\* the number of records of pages 1..k
Cum(src, k) == IF k <= 0 THEN 0 ELSE Cum(src, k - 1) + Yield(src[k])

Min(S) == CHOOSE x \in S : \A y \in S : x <= y

\* the first page that yields no record (one past the end when there is none)
FirstEmpty(src) == Min({i \in 1..Len(src) : Yield(src[i]) = 0} \cup {Len(src) + 1})

\* the records a traversal without cap collects
Available(src) == Cum(src, FirstEmpty(src) - 1)

\* the first page after which the raw count is at least K
FirstReach(src, K) == Min({k \in 1..Len(src) : Cum(src, k) >= K} \cup {Len(src) + 1})

\* the page loop has ended
LoopDone == pc \in {"filter", "flush"} /\ pages_collected > 0

\* pages 1..P yield records, page P+1 shows the "no reviews" indicator
IndicatorAfter(src, P) ==
    /\ P + 1 <= Len(src)
    /\ \A i \in 1..P : ~src[i].indicator /\ Yield(src[i]) >= 1
    /\ src[P + 1].indicator

(***************************************************************************)
(* C2.  After a full crawl was flushed, a second crawl of the unchanged    *)
(* source in incremental mode (same max_reviews) accepts zero records.     *)
(***************************************************************************)
C2_SecondCrawlAcceptsNothing ==
    (/\ Len(run_log) >= 2
     /\ ~run_log[1].incremental
     /\ run_log[1].opened
     /\ run_log[2].incremental
     /\ run_log[2].max_reviews = run_log[1].max_reviews)
        => run_log[2].accepted = 0

(***************************************************************************)
(* C3.  P >= 1 pages with records, then a page with the "no reviews"       *)
(* indicator, the cap not reached: exactly P+1 page collections, then the  *)
(* traversal stops with reason exhausted.                                  *)
(***************************************************************************)
C3_StopsAfterIndicatorPage ==
    \A P \in 1..Len(source) :
        (/\ IndicatorAfter(source, P)
         /\ (max_reviews = 0 \/ Cum(source, P) < max_reviews))
          => /\ (pc = "collect" => pages_collected <= P)
             /\ (LoopDone => pages_collected = P + 1 /\ stop_reason = "exhausted")

C3_Witness ==
    /\ pc = "flush"
    /\ \E P \in 1..Len(source) :
          /\ IndicatorAfter(source, P)
          /\ max_reviews > Cum(source, P)
          /\ pages_collected = P + 1
    /\ stop_reason = "exhausted"
    /\ raw_reviews # <<>>

(***************************************************************************)
(* C4.  With max_reviews = K smaller than the number of records available, *)
(* collection stops at the first page after which the raw count L is at    *)
(* least K: K <= L < K + (size of the last page), no further page is       *)
(* collected, and the stop reason is limitReached.                         *)
(***************************************************************************)
CapOutcome ==
    /\ max_reviews <= Len(raw_reviews)
    /\ Len(raw_reviews) < max_reviews + last_page.size
    /\ pages_collected = FirstReach(source, max_reviews)
    /\ stop_reason = "limitReached"

\* C4 as claimed: for every K
C4_CapStop ==
    (LoopDone /\ max_reviews < Available(source)) => CapOutcome

\* C4 amended: for K >= 1
C4_CapStopPositive ==
    (LoopDone /\ max_reviews >= 1 /\ max_reviews < Available(source)) => CapOutcome

C4_Witness ==
    /\ pc = "flush"
    /\ max_reviews >= 1
    /\ max_reviews < Available(source)
    /\ Len(raw_reviews) > max_reviews
    /\ stop_reason = "limitReached"

(***************************************************************************)
(* C5.  The cap (a max_reviews that is set, i.e. not 0) is compared with   *)
(* the raw count, before the filter: no page is collected once the raw     *)
(* count has reached max_reviews, however few records pass the filter, and *)
(* the number of pages collected depends on the source and max_reviews     *)
(* only.                                                                   *)
(***************************************************************************)
ExpectedPages(src, max) ==
    Min({FirstEmpty(src), Len(src)}
          \cup (IF max # 0 THEN {FirstReach(src, max)} ELSE {}))

C5_CapOnRawCount ==
    /\ (pc = "collect" /\ pages_collected >= 1 /\ max_reviews # 0)
          => Len(raw_reviews) < max_reviews
    /\ (LoopDone /\ max_reviews # 0 /\ last_page.size > 0
            /\ Len(raw_reviews) >= max_reviews)
          => stop_reason = "limitReached"
    /\ LoopDone => pages_collected = ExpectedPages(source, max_reviews)

C5_Witness ==
    /\ pc = "flush"
    /\ incremental
    /\ Truthy(last_review_date)
    /\ stop_reason = "limitReached"
    /\ max_reviews >= 1
    /\ Len(raw_reviews) >= max_reviews
    /\ Len(all_reviews) < max_reviews

(***************************************************************************)
(* C6.  After each page the stop conditions are evaluated in the order     *)
(* "no reviews" indicator, zero records, cap, advance: the next-page       *)
(* navigation is never invoked after a page with the indicator, after a    *)
(* page without records, or once the raw count has reached a set cap.      *)
(***************************************************************************)
C6_StopOrder ==
    /\ \A i \in 1..Len(nav_log) :
          /\ ~nav_log[i].indicator
          /\ nav_log[i].page_len > 0
          /\ ~(max_reviews # 0 /\ nav_log[i].raw_len >= max_reviews)
    /\ LoopDone =>
          stop_reason =
             (IF last_page.indicator THEN "exhausted"
              ELSE IF last_page.size = 0 THEN "noRecordsOnPage"
              ELSE IF max_reviews # 0 /\ Len(raw_reviews) >= max_reviews
                   THEN "limitReached"
              ELSE "exhausted")

C6_Witness ==
    /\ pc = "flush"
    /\ Len(nav_log) >= 1
    /\ max_reviews >= 1
    /\ Len(raw_reviews) >= max_reviews
    /\ stop_reason = "limitReached"
    /\ page_view = Len(nav_log) + 1

(***************************************************************************)
(* C11.  The filter never stops the traversal: two crawls of the same      *)
(* source with the same max_reviews, one in full mode and one in           *)
(* incremental mode, whatever the watermark, collect the same pages,       *)
(* navigate the same number of times, gather the same raw records and stop *)
(* for the same reason; only the accepted records may differ.              *)
(***************************************************************************)
C11_FilterNeverStops ==
    (/\ Len(run_log) = 2
     /\ ListingReached(run_log[1].listing)
     /\ ListingReached(run_log[2].listing)
     /\ run_log[1].incremental # run_log[2].incremental
     /\ run_log[1].max_reviews = run_log[2].max_reviews)
        => /\ run_log[1].pages = run_log[2].pages
           /\ run_log[1].navs = run_log[2].navs
           /\ run_log[1].raw = run_log[2].raw
           /\ run_log[1].stop_reason = run_log[2].stop_reason

C11_Witness ==
    /\ Len(run_log) = 2
    /\ run_log[1].incremental # run_log[2].incremental
    /\ run_log[1].pages = 2
    /\ run_log[2].pages = 2
    /\ \E i \in 1..2 :
          /\ run_log[i].incremental
          /\ run_log[i].accepted < run_log[i].raw
          /\ run_log[3 - i].accepted = run_log[3 - i].raw

(***************************************************************************)
(* C12.  After any sequence of update_product_metadata and save_review     *)
(* calls, the recent-ID window of every product holds at most 20 IDs, each *)
(* of them once: the window is the list made of a set at line 98, which    *)
(* the model holds as the set of its elements.                             *)
(***************************************************************************)
C12_WindowBounded ==
    \A p \in Products :
        /\ IsFiniteSet(metadata[p].last_review_ids)
        /\ Cardinality(metadata[p].last_review_ids) <= WindowSize
        /\ NoId \notin metadata[p].last_review_ids

C12_Witness ==
    /\ next_id > WindowSize + 1
    /\ Cardinality(metadata["101"].last_review_ids) = WindowSize
    /\ \E id \in 1..Max(StoredBefore) : id \notin metadata["101"].last_review_ids
    /\ metadata["202"].last_review_ids # {}

(***************************************************************************)
(* C13.  The window evicts the oldest-inserted IDs: an ID inserted by one  *)
(* of the latest calls (fewer than 20 distinct IDs were inserted after it) *)
(* is still in the window of the product it was inserted for.  In          *)
(* SpecStore the IDs above Max(StoredBefore) are such IDs.                 *)
(***************************************************************************)
C13_RecentIdsKept ==
    \A id \in (Max(StoredBefore) + 1)..(next_id - 1) :
        \E p \in Products : id \in metadata[p].last_review_ids

(***************************************************************************)
(* C14.  The stored watermark (last_review_date, last_review_ids and       *)
(* total_reviews of every product) and the review files change only in a   *)
(* save_review step of the flush: no step from the start of                *)
(* parse_product_reviews to the end of its page loop and filter changes    *)
(* them.                                                                   *)
(***************************************************************************)
C14_WatermarkFrozenUntilFlush ==
    [][(metadata' # metadata \/ reviews' # reviews)
          => (pc = "flush" /\ pc' = "flush" /\ save_i <= Len(all_reviews))]_vars

C14_Witness ==
    /\ pc = "flush"
    /\ save_i = 1
    /\ incremental
    /\ pages_collected >= 2
    /\ all_reviews # <<>>
    /\ Truthy(metadata[product_id].last_review_date)
    /\ metadata[product_id].last_review_date = last_review_date
    /\ metadata[product_id].last_review_ids = last_review_ids
    /\ all_reviews[1].date # last_review_date

(***************************************************************************)
(* C15.  Two concurrent update_product_metadata calls on the same product: *)
(* under every interleaving of their steps the stored metadata is what the *)
(* two calls leave when they run one after the other, in one of the two    *)
(* orders.                                                                 *)
(***************************************************************************)
C15_UpsertAtomic ==
    (UpsertsDone /\ writers[1].call.pid = writers[2].call.pid) =>
        /\ truncated = "no"
        /\ \E stamp \in StampLens :
              metadata \in
                {Updated(Updated(EarlierStore(stamp), writers[1].call), writers[2].call),
                 Updated(Updated(EarlierStore(stamp), writers[2].call), writers[1].call)}

(***************************************************************************)
(* C16.  Two concurrent update_product_metadata calls on two different     *)
(* products: under every interleaving each product's entry is the one its  *)
(* own call makes.                                                         *)
(***************************************************************************)
C16_ProductsIndependent ==
    (UpsertsDone /\ writers[1].call.pid # writers[2].call.pid) =>
        /\ truncated = "no"
        /\ \A p \in Procs : \E stamp \in StampLens :
              metadata[writers[p].call.pid] =
                  Updated(EarlierStore(stamp), writers[p].call)[writers[p].call.pid]

(***************************************************************************)
(* The coordinator's run.                                                  *)
(***************************************************************************)
\* the last call made for the URL
LastRun(url) == Max({i \in 1..Len(run_log) : run_log[i].url = url})

\* the coordinator's loop has ended
RunDone == pc = "idle" /\ runs = Len(urls)

(***************************************************************************)
(* C17.  An exception of one product's traversal is caught by the          *)
(* coordinator: the calls made so far are those for the first URLs of the  *)
(* list, one per URL and in the list's order, whether or not a call        *)
(* raised; each of these URLs has an entry in the summary, 0 when the      *)
(* (last) call for it raised and else the number of records that call      *)
(* accepted.                                                               *)
(***************************************************************************)
C17_FailureIsolated ==
    /\ Len(run_log) = runs
    /\ runs <= Len(urls)
    /\ \A i \in 1..Len(run_log) :
          /\ run_log[i].url = urls[i]
          /\ results[urls[i]] # NoCount
          /\ (i = LastRun(urls[i])) =>
                results[urls[i]] =
                    (IF run_log[i].failed THEN 0 ELSE run_log[i].accepted)
    /\ \A url \in Urls :
          results[url] # NoCount => \E i \in 1..Len(run_log) : run_log[i].url = url

C17_Witness ==
    /\ RunDone
    /\ Len(urls) = 2
    /\ run_log[1].failed
    /\ ~run_log[2].failed
    /\ run_log[2].accepted > 0
    /\ results[urls[1]] = 0
    /\ results[urls[2]] = run_log[2].accepted

(***************************************************************************)
(* The two accepted URL shapes: the text ends with a segment -<digits>     *)
(* (and an optional slash), or it has a parameter id=<digits>.             *)
(***************************************************************************)
TrailingDigits(url) ==
    \E j \in 1..(Len(url) - 1) :
        LET last == IF url[Len(url)] = "/" THEN Len(url) - 1 ELSE Len(url)
        IN  /\ url[j] = "-"
            /\ j < last
            /\ \A k \in (j + 1)..last : url[k] \in Digit

IdParameter(url) ==
    \E j \in 2..(Len(url) - 3) :
        /\ url[j - 1] \in {"?", "&"}
        /\ At(url, <<"i", "d", "=">>, j)
        /\ url[j + 3] \in Digit

NeitherShape(url) == ~TrailingDigits(url) /\ ~IdParameter(url)

(***************************************************************************)
(* C18.  For a URL of neither accepted shape the traversal fails for that  *)
(* product only: the call ends before a page is opened, the product yields *)
(* zero records, nothing is stored, and the coordinator goes on with the   *)
(* next URL.                                                               *)
(***************************************************************************)
C18_InvalidUrlFails ==
    /\ (pc # "idle") => ~NeitherShape(urls[runs + 1])
    /\ \A i \in 1..Len(run_log) :
          NeitherShape(run_log[i].url) =>
              /\ run_log[i].product = NoProduct
              /\ run_log[i].listing = "none"
              /\ run_log[i].pages = 0
              /\ run_log[i].accepted = 0
              /\ results[run_log[i].url] = 0

(***************************************************************************)
(* C19.  Pages are collected only after the listing view was reached, by   *)
(* the direct listing URL or, after that failed, by the product page and   *)
(* the reviews tab.  When the direct open fails and then the product page  *)
(* or the tab fails, the traversal ends with no page collected and no      *)
(* record kept, and no step of it changes the review files or the          *)
(* watermark.                                                              *)
(***************************************************************************)
ListingFailed == listing_view \in {"no_page", "no_tab"}

C19_State ==
    /\ (pc \in {"collect", "filter"} \/ pages_collected > 0)
          => listing_view \in {"direct", "fallback"}
    /\ ListingFailed =>
          /\ pc \in {"flush", "idle"}
          /\ pages_collected = 0
          /\ raw_reviews = <<>>
          /\ all_reviews = <<>>

C19_ListingBeforeCollect ==
    /\ []C19_State
    /\ [][ListingFailed => UNCHANGED <<reviews, metadata>>]_vars

C19_Witness ==
    /\ Len(run_log) = 2
    /\ run_log[1].listing = "no_tab"
    /\ run_log[1].pages = 0
    /\ run_log[1].accepted = 0
    /\ run_log[2].listing = "fallback"
    /\ run_log[2].pages >= 2
    /\ run_log[2].accepted > 0

(***************************************************************************)
(* C20.  An exception while page k is collected makes the page an empty    *)
(* one.  For k > 1 the loop stops there (reason noRecordsOnPage) and the   *)
(* records of pages 1..k-1 are kept: they are the raw records, the filter  *)
(* is applied to them, and at the end of the flush every accepted record   *)
(* is in the product's review file.  For k = 1 the traversal ends with no  *)
(* record.                                                                 *)
(***************************************************************************)
\* page k raises, the pages before it yield records, the cap is not reached
ErrorAt(k) ==
    /\ k <= Len(source)
    /\ source[k].error
    /\ \A i \in 1..(k - 1) : Yield(source[i]) >= 1
    /\ max_reviews = 0 \/ Cum(source, k - 1) < max_reviews

StoredIdsOf(pid) == {reviews[pid][i].review_id : i \in 1..Len(reviews[pid])}

C20_ErrorPageIsEmptyPage ==
    \A k \in 1..Len(source) :
        (ErrorAt(k) /\ LoopDone) =>
            /\ pages_collected = k
            /\ stop_reason = "noRecordsOnPage"
            /\ Len(raw_reviews) = Cum(source, k - 1)
            /\ \A i \in 1..Len(raw_reviews) :
                  raw_reviews[i].review_id = PriorRecords(source, k - 1)[i].review_id
            /\ (pc = "flush") =>
                  /\ \E t \in NowValues :
                        \E clk \in Readings(t, Len(raw_reviews)) :
                           all_reviews = FilterFrom(incremental, last_review_date,
                                last_review_ids, raw_reviews, 1, clk)
                  /\ (k = 1) => (all_reviews = <<>> /\ save_i = 1)
                  /\ (save_i > Len(all_reviews)) =>
                        \A i \in 1..Len(all_reviews) :
                            all_reviews[i].review_id \in StoredIdsOf(product_id)

C20_Witness ==
    /\ pc = "flush"
    /\ save_i > Len(all_reviews)
    /\ ErrorAt(2)
    /\ pages_collected = 2
    /\ stop_reason = "noRecordsOnPage"
    /\ Len(all_reviews) >= 1
    /\ Len(reviews[product_id]) = Len(all_reviews)

(***************************************************************************)
(* C21.  Every browser resource a traversal acquires is released: the page *)
(* is closed whenever the call is not inside its try block, and once the   *)
(* coordinator has called close() neither a page nor the browser session   *)
(* (playwright, browser, context) is open.                                 *)
(***************************************************************************)
C21_ResourcesReleased ==
    /\ (pc \in {"idle", "page", "flush"}) => ~page_open
    /\ closed => (~page_open /\ ~browser)

(***************************************************************************)
(* C22.  An incremental call that finds the metadata file undecodable does *)
(* not enter the traversal: no step takes parse_product_reviews from its   *)
(* start to the opening of a page in incremental mode while the watermark  *)
(* cannot be read.                                                         *)
(***************************************************************************)
C22_NoTraversalWithoutWatermark ==
    [][~(pc = "idle" /\ pc' = "page" /\ truncated # "no" /\ incremental')]_vars

(***************************************************************************)
(* C29.  An exception inside the try block of parse_product_reviews: the   *)
(* page is closed, the call returns an empty list (it does not raise, and  *)
(* the coordinator counts 0 records), and no step of the call from the     *)
(* exception on writes the review files or the metadata file.              *)
(***************************************************************************)
C29_State ==
    /\ (stop_reason = "error" /\ pc \in {"flush", "idle"}) =>
          (all_reviews = <<>> /\ ~page_open)
    /\ \A i \in 1..Len(run_log) :
          (run_log[i].stop_reason = "error") =>
              /\ ~run_log[i].failed
              /\ run_log[i].accepted = 0
              /\ run_log[i].saved = 0
              /\ results[run_log[i].url] = 0

C29_BodyFailureReturnsEmpty ==
    /\ []C29_State
    /\ [][(stop_reason' = "error") => UNCHANGED <<reviews, metadata, truncated>>]_vars

(***************************************************************************)
(* The flush of save_reviews.                                              *)
(***************************************************************************)
\* no two records of the sequence have the same review_id
UniqueIds(q) ==
    \A i, j \in 1..Len(q) : (q[i].review_id = q[j].review_id) => i = j

\* the records the product has got from this flush, in the order in which
\* they were stored (in SpecFlush product "101" had next_id - 1 before it)
NewlyStored(p) ==
    SubSeq(reviews[p], (IF p = "101" THEN next_id ELSE 1), Len(reviews[p]))

\* the record save_reviews is about to save
Current == all_reviews[save_i]

FlushDone == pc = "flush" /\ save_i > Len(all_reviews)

(***************************************************************************)
(* C23.  The stored reviews of a product never hold two records with the   *)
(* same review_id.  A record whose review_id is already stored for its     *)
(* product is skipped: that save_review step leaves the review files, the  *)
(* watermark and the saved count unchanged; the saved count is the number  *)
(* of records the flush has added to the review files.                     *)
(***************************************************************************)
C23_State ==
    /\ \A p \in Products : UniqueIds(reviews[p])
    /\ saved_count = Len(NewlyStored("101")) + Len(NewlyStored("202"))

C23_NoDuplicateStored ==
    /\ []C23_State
    /\ [][(/\ pc = "flush"
            /\ save_i <= Len(all_reviews)
            /\ review_exists(reviews[Current.product_id], Current))
              => UNCHANGED <<reviews, metadata, saved_count>>]_vars

C23_Witness ==
    /\ FlushDone
    /\ Len(all_reviews) = 3
    /\ next_id = 2
    /\ \A i \in 1..3 : all_reviews[i].product_id = "101"
    /\ all_reviews[1].review_id = 1
    /\ all_reviews[2].review_id = 2
    /\ all_reviews[3].review_id = 2
    /\ all_reviews[3].date # all_reviews[2].date
    /\ saved_count = 1
    /\ Len(reviews["101"]) = 2

(***************************************************************************)
(* C28.  During and after a flush, the last_review_date of a product is    *)
(* the date of the last record with a non-empty date that the flush has    *)
(* newly stored for it, in sequence order, whether or not an earlier       *)
(* record has a later date; when the flush has stored no such record (all  *)
(* records duplicates or without a date) it is the date from before the    *)
(* flush.                                                                  *)
(***************************************************************************)
DatedNew(p) == SelectSeq(NewlyStored(p), LAMBDA r : Truthy(r.date))

DateBefore(p) ==
    IF p = "101" THEN FirstMetadata(next_id - 1, Max(StampLens)).last_review_date ELSE NoneDate

C28_WatermarkDateIsLastStored ==
    \A p \in Products :
        metadata[p].last_review_date =
            (IF DatedNew(p) # <<>> THEN DatedNew(p)[Len(DatedNew(p))].date
             ELSE DateBefore(p))

C28_Witness ==
    /\ FlushDone
    /\ Len(all_reviews) = 3
    /\ next_id = 2
    /\ \A i \in 1..3 : all_reviews[i].product_id = "101"
    /\ all_reviews[1].review_id = 2 /\ all_reviews[1].date = D12
    /\ all_reviews[2].review_id = NoId /\ all_reviews[2].date = D10
    /\ all_reviews[3].review_id = 1 /\ all_reviews[3].date = D12
    /\ saved_count = 2
    /\ metadata["101"].last_review_date = D10

(***************************************************************************)
(* C30.  Under save_review calls with records that carry a date and a      *)
(* review_id (empty or not), the total_reviews of a product that has       *)
(* stored records is their number, and no step decreases the               *)
(* total_reviews of a product.                                             *)
(***************************************************************************)
C30_State ==
    \A p \in Products :
        (Len(reviews[p]) > 0) => metadata[p].total_reviews = Len(reviews[p])

C30_TotalCountsStored ==
    /\ []C30_State
    /\ [][\A p \in Products :
              metadata'[p].total_reviews >= metadata[p].total_reviews]_vars

C30_Witness ==
    /\ FlushDone
    /\ next_id = 2
    /\ saved_count = 2
    /\ Len(all_reviews) = 3
    /\ metadata["101"].total_reviews = 2
    /\ metadata["202"].total_reviews = 1

\* a record with an id and a text of at least 10 characters
ValidRecord(r) == r.review_id # NoId /\ r.text >= 10

(***************************************************************************)
(* C24.  No record with an empty review_id, or with a text that is empty   *)
(* or shorter than 10 characters, is among the raw records, the accepted   *)
(* records or the stored reviews.                                          *)
(***************************************************************************)
C24_OnlyValidRecords ==
    /\ \A i \in 1..Len(raw_reviews) : ValidRecord(raw_reviews[i])
    /\ \A i \in 1..Len(all_reviews) : ValidRecord(all_reviews[i])
    /\ \A p \in Products : \A i \in 1..Len(reviews[p]) : ValidRecord(reviews[p][i])

(***************************************************************************)
(* The calendar date of a datetime: the inverse of DateTicks.              *)
(***************************************************************************)
DayNumber(v) == v \div TicksPerDay

DayOf(v) == ((DayNumber(v) - 1) % 31) + 1

MonthOf(v) == ((((DayNumber(v) - DayOf(v)) \div 31) - 1) % 12) + 1

YearOf(v) == (((DayNumber(v) - DayOf(v)) \div 31) - MonthOf(v)) \div 12

\* the outcome is the midnight of the calendar date y-m-d, read from the text
IsDate(out, y, m, d) ==
    /\ out.ok
    /\ ~out.clock
    /\ out.v % TicksPerDay = 0
    /\ YearOf(out.v) = y
    /\ MonthOf(out.v) = m
    /\ DayOf(out.v) = d

DateParsed == review_date # NotParsed

(***************************************************************************)
(* C25.  parse_date reads "a.b.yyyy" and "a/b/yyyy" as day a, month b,     *)
(* the long form "a <month word> yyyy" as day a of that month, and         *)
(* "yyyy-b-a" as the ISO date: whenever these numbers name a calendar      *)
(* date, the outcome is that date.  "30 марта 2025" gives 2025-03-30 and   *)
(* "01.02.2025" gives 2025-02-01.  A text of no form gives the clock's     *)
(* reading.                                                                *)
(***************************************************************************)
C25_DayMonthYear ==
    DateParsed =>
        /\ (/\ review_date_str.fmt \in {"dot", "ru", "iso", "slash"}
            /\ review_date_str.tail = ""
            /\ ValidDate(review_date_str.y, review_date_str.m, review_date_str.d))
              => IsDate(review_date, review_date_str.y, review_date_str.m,
                        review_date_str.d)
        /\ (review_date_str = DateText("ru", 30, 3, 2025))
              => IsDate(review_date, 2025, 3, 30)
        /\ (review_date_str = DateText("dot", 1, 2, 2025))
              => IsDate(review_date, 2025, 2, 1)
        /\ (review_date_str.fmt \in {"junk", "empty"})
              => (review_date.ok /\ review_date.clock /\ review_date.v = now)

C25_Witness ==
    /\ DateParsed
    /\ review_date_str = DateText("dot", 1, 2, 2025)
    /\ MonthOf(review_date.v) = 2
    /\ DayOf(review_date.v) = 1
    /\ YearOf(review_date.v) = 2025

(***************************************************************************)
(* What a line of the URL file gives: the number in the second place, and  *)
(* the mode word in the third place or, when there is none there, in the   *)
(* second place.                                                           *)
(***************************************************************************)
UrlLinesOf(file) == SelectSeq(file, LAMBDA l : ~l.comment)

\* the word w is the word m, each letter small or capital
Spells(w, m) ==
    /\ Len(w) = Len(m)
    /\ \A i \in 1..Len(w) :
          \/ w[i] = m[i]
          \/ \E k \in 1..26 : Alphabet.small[k] = m[i] /\ Alphabet.capital[k] = w[i]

IsMode(tok) ==
    /\ tok.kind = "word"
    /\ \/ Spells(tok.word, <<"i", "n", "c", "r", "e", "m", "e", "n", "t", "a", "l">>)
       \/ Spells(tok.word, <<"f", "u", "l", "l">>)

GivesMax(l) == l.second.kind = "number"

GivesMode(l) == IsMode(l.second) \/ IsMode(l.third)

LineMode(l) ==
    IF IsMode(l.third) THEN Spells(l.third.word, <<"i", "n", "c", "r", "e", "m", "e", "n", "t", "a", "l">>)
    ELSE Spells(l.second.word, <<"i", "n", "c", "r", "e", "m", "e", "n", "t", "a", "l">>)

\* the values with which the traversal of the i-th URL line was called
PassedAt(i) ==
    IF i <= Len(run_log)
    THEN [max_reviews |-> run_log[i].max_reviews, incremental |-> run_log[i].incremental]
    ELSE [max_reviews |-> max_reviews, incremental |-> incremental]

\* the traversals called so far
Called == 1..(IF pc = "idle" THEN runs ELSE runs + 1)

MaxFromLine(i) ==
    LET l == UrlLinesOf(url_file)[i]
    IN  PassedAt(i).max_reviews =
            IF GivesMax(l) THEN l.second.num ELSE MAX_REVIEWS_PER_PRODUCT

ModeFromLine(i) ==
    LET l == UrlLinesOf(url_file)[i]
    IN  PassedAt(i).incremental =
            IF GivesMode(l) THEN LineMode(l) ELSE INCREMENTAL_PARSING

(***************************************************************************)
(* C26 as stated.  Every traversal of the scheduled run is called with the *)
(* max_reviews and the mode its line gives, and with                       *)
(* MAX_REVIEWS_PER_PRODUCT and INCREMENTAL_PARSING for what the line       *)
(* omits.                                                                  *)
(***************************************************************************)
C26_LineBeatsDefault ==
    \A i \in Called : MaxFromLine(i) /\ ModeFromLine(i)

(***************************************************************************)
(* C26.  Every traversal of the scheduled run is called with the           *)
(* max_reviews its line gives, MAX_REVIEWS_PER_PRODUCT when it gives none; *)
(* in a run without --full it is called with the mode its line gives,      *)
(* INCREMENTAL_PARSING when it gives none; in a run with --full every      *)
(* traversal is called in full mode, whatever its line says.               *)
(***************************************************************************)
C26_LineBeatsDefaultUnlessFull ==
    \A i \in Called :
        /\ MaxFromLine(i)
        /\ IF force_full THEN ~PassedAt(i).incremental ELSE ModeFromLine(i)

C26_Witness ==
    /\ ~force_full
    /\ url_file = <<Line(UrlSuffix, Number(MaxCap), Word(<<"I", "n", "c", "r", "e", "m", "e", "n", "t", "a", "l">>)),
                    CommentLine,
                    Line(UrlSuffix, Word(<<"F", "u", "L", "L">>), Word(<<"f", "a", "s", "t">>))>>
    /\ Len(run_log) = 2
    /\ run_log[1].max_reviews = MaxCap
    /\ run_log[1].incremental
    /\ run_log[1].raw = 1
    /\ run_log[2].max_reviews = MAX_REVIEWS_PER_PRODUCT
    /\ ~run_log[2].incremental

(***************************************************************************)
(* C27.  With max_reviews >= 1 the page loop ends, also on a listing on    *)
(* which a next page is always reachable: every iteration after which the  *)
(* loop goes on has added a record and left fewer than max_reviews raw     *)
(* records, so the loop makes at most max_reviews page collections.        *)
(***************************************************************************)
C27_LoopBound ==
    (pc \in {"collect", "filter", "flush"} /\ max_reviews >= 1) =>
        /\ pages_collected <= max_reviews
        /\ (pc = "collect") =>
              /\ Len(raw_reviews) >= pages_collected
              /\ Len(raw_reviews) < max_reviews

C27_PageLoopTerminates ==
    /\ []C27_LoopBound
    /\ (pc = "collect") ~> (pc = "filter")

C27_Witness ==
    /\ endless
    /\ Len(source) = 1
    /\ pc = "filter"
    /\ max_reviews = MaxCap
    /\ pages_collected = max_reviews
    /\ stop_reason = "limitReached"
====
